---------------------------- MODULE Spec2Model ----------------------------
(***************************************************************************)
(* Fin-Agent: the durable store (fin_agent/storage/sqlite_store.py), the   *)
(* provider rate limiter (fin_agent/integrations/rate_limit.py) and the    *)
(* code-strategy sandbox runner (fin_agent/code_strategy/runner.py).       *)
(*                                                                         *)
(* Every store function opens its own sqlite3 connection (connect()), in   *)
(* Python's default isolation level and SQLite's default rollback-journal  *)
(* mode: a SELECT runs outside any transaction and reads the committed     *)
(* database; the first INSERT/UPDATE of a connection opens a transaction   *)
(* and takes the database's single write lock, held until commit();        *)
(* leaving the `with connect(...)` block by an exception closes the        *)
(* connection, which rolls the open transaction back.  A writer that       *)
(* finds the lock taken waits and either gets it or gives up with          *)
(* OperationalError("database is locked").                                 *)
(***************************************************************************)
EXTENDS Integers, Sequences, FiniteSets, TLC

\* ------------------------------------------------------------------ bounds
NumProcs == 2
MaxClock == 2

Procs == 1..NumProcs
NoProc == 0
NULL == -1

VARIABLES
  clock,          \* datetime.now(timezone.utc), in seconds
  dbLock,         \* the connection holding SQLite's write lock, or NoProc
  \* ---- oauth_states
  oauth_states,   \* committed rows of table oauth_states
  oauth_tx,       \* the lock holder's uncommitted view of oauth_states
  o_pc,           \* per caller: position inside consume_*_oauth_state
  o_call,         \* per caller: the call's locals
  o_ret,          \* how the consume call that ended last ended
  o_ok,           \* per state: number of consume calls that returned normally
  \* ---- strategies / strategy_versions / code_strategies / code_strategy_versions
  strategies,              \* committed ids of table strategies
  strategy_versions,       \* committed rows of table strategy_versions
  code_strategies,         \* committed rows of table code_strategies
  code_strategy_versions,  \* committed rows of table code_strategy_versions
  v_tx,           \* the lock holder's uncommitted view of the four tables
  v_pc,           \* per caller: position inside save_*_version
  v_call,         \* per caller: the call's locals
  v_last,         \* how the save call that ended last ended
  sv_returned,    \* per strategy id: version_number of each save_strategy_version return
  cs_returned,    \* per code strategy id: version_number of each save_code_strategy_version return
  \* ---- jobs
  jobs,           \* rows of table jobs
  \* ---- rate limiter
  mono,           \* time.monotonic(), in seconds
  rl_env,         \* per provider: the limits the environment variables give now
  rl_state,       \* _STATE: per provider string, the admitted timestamps
  rl_pc,          \* per thread: position inside enforce_provider_limit
  rl_call,        \* per thread: the call's locals (provider, now)
  rl_last,        \* how the call that ended last ended
  rl_admitted,    \* history: per provider, when the admitted calls left the lock
  \* ---- sandbox runner
  sandbox_dirs,   \* the sandbox working directories that exist under the temp dir
  sb_pc,          \* position inside run_code_strategy_sandbox
  sb_call,        \* the call's arguments and locals
  sb_ret,         \* how the call that ended last ended
  child_pc,       \* the harness process: "none", "running", "exited", "killed"
  child_wall,     \* wall-clock seconds since the child was spawned
  child_cpu,      \* CPU seconds the child has used
  child_rc,       \* proc.returncode
  child_stderr,   \* proc.stderr, as the set of messages it contains
  child_written,  \* resolved paths of the files the child has written
  child_ops,      \* number of open calls the strategy program has made
  child_tried,    \* the program tried a write that resolves outside the artifact dir
  child_environ,  \* env handed to subprocess.run: pairs <<name, origin>>
  \* ---- tuning_runs / tuning_trials / tuning_layer_decisions
  tuning_runs,             \* committed rows of table tuning_runs
  tuning_trials,           \* committed rows of table tuning_trials, in id order
  tuning_layer_decisions,  \* committed rows of table tuning_layer_decisions, in id order
  t_tx,           \* the lock holder's uncommitted view of the three tables
  t_pc,           \* per caller: position inside save_tuning_run / update_tuning_run
  t_call,         \* per caller: the call's locals
  t_ret,          \* how the tuning call that ended last ended, while no save has begun since
  tu_saved,       \* per run id: the payload fields save_tuning_run stored
  tu_applied,     \* per run id: the updates of the update_tuning_run calls that returned
  \* ---- job_events and the SSE reader of /v1/events/jobs
  job_events,     \* committed rows of table job_events
  ev_seq,         \* sqlite_sequence of job_events: the largest id ever committed
  ev_tx,          \* the lock holder's uncommitted job_events row, or none
  ev_pc,          \* per caller: position inside append_job_event
  ev_ret,         \* how the append_job_event call that ended last ended
  r_pc,           \* the reader: "stopped", "polling" or "yielding"
  r_start,        \* the last_event_id the stream was opened with
  r_current,      \* the reader's cursor
  r_k,            \* the last_id of the reader's latest list_job_events_after call
  r_events,       \* what that call returned
  r_next,         \* index in r_events of the next event to yield
  r_delivered,    \* the ids the reader has yielded, in order
  \* ---- live states
  live_states,    \* committed rows of live_states
  ls_tx,          \* the table as the write-lock holder sees it
  ls_pc,          \* per caller: where its upsert_live_state call is
  ls_call,        \* per caller: the call's arguments and locals
  ls_ret,         \* outcome of the last finished call
  ls_last,        \* per strategy_version_id: status and payload of the last committed upsert
  ls_calls,       \* number of upsert_live_state calls made so far
  \* ---- audit events and structured log
  audit_events,   \* rows of audit_events, in id order
  structured_log, \* lines of logs/structured.log
  \* ---- tuning engine
  tn_pc,          \* where tune_strategy is: idle, layer, run, done
  tn_args,        \* its arguments
  tn_layer,       \* layer of the loop
  tn_remaining,   \* remaining_trials
  tn_seen,        \* evaluated_param_sets
  tn_selected,    \* selected, the candidates of this layer in run order
  tn_index,       \* position in selected of the next candidate to run
  tn_layer_results,\* layer_results
  tn_evaluated,   \* evaluated
  tn_best,        \* best_candidate
  tn_runs,        \* number of _run_candidate calls so far
  tn_grid,        \* candidates of the layer, from the grid to its first run; else <<>>
  tn_executed,    \* history: the params of the _run_candidate calls, in order
  tn_ret,         \* how tune_strategy ended
  \* ---- market data (DuckDB), world manifests and the Kite candle cache
  market_ohlcv,   \* rows of market_ohlcv, in storage order
  company_fundamentals, \* rows of company_fundamentals
  corporate_actions,    \* rows of corporate_actions
  analyst_ratings,      \* rows of analyst_ratings
  world_manifests,      \* rows of world_manifests (SQLite)
  kite_candle_cache,    \* rows of kite_candle_cache (SQLite)
  md_audit,       \* event_type of the audit events these handlers appended
  md_ops,         \* number of ingest calls made so far
  upstream_calls, \* number of fetch_historical_candles calls made so far
  md_call,        \* the call made last: its name and arguments
  md_ret,         \* how the call that ended last ended
  \* ---- live boundary candidates
  bc_call,        \* the boundary_candidates call made last: snapshot and top_k
  bc_ret,         \* what it returned or raised
  \* ---- choice parameters of the search space
  cg_call,        \* the last call of _generate_param_grid: choices and layer
  cg_ret,         \* what it returned or raised
  \* ---- auth_kite_callback requests
  cb_pc,          \* where each callback request stands
  cb_call,        \* its resolved state and consumed_at
  cb_ret,         \* HTTP status of the callback that ended last, 0 before any
  connector_sessions,\* connectors with a row in connector_sessions
  session_writes, \* history: per OAuth state, the session writes of requests that consumed it
  \* ---- code strategy backtests
  backtest_runs,  \* rows of backtest_runs
  bt_files,       \* the code-backtests artifact sets written, by call number
  bt_audit,       \* event_type of the audit events the backtests appended
  bt_calls,       \* number of run_code_strategy_backtest calls made so far
  bt_ret,         \* how the call that ended last ended
  \* ---- request trace ids
  tr_pc,          \* each request task's position in trace_logging_middleware
  tr_context,     \* the value of _TRACE_ID in each task's context
  tr_trace_id,    \* the trace_id of the request a task is handling
  tr_token,       \* the token set_trace_id returned to the task
  tr_requests,    \* number of requests received so far
  tr_rows         \* the log and audit rows each task wrote in its last step

oauthVars == <<oauth_states, oauth_tx, o_pc, o_call, o_ret, o_ok>>
verVars == <<strategies, strategy_versions, code_strategies, code_strategy_versions,
             v_tx, v_pc, v_call, v_last, sv_returned, cs_returned>>
jobVars == <<jobs>>
rlVars == <<mono, rl_env, rl_state, rl_pc, rl_call, rl_last, rl_admitted>>
sbVars == <<sandbox_dirs, sb_pc, sb_call, sb_ret, child_pc, child_wall, child_cpu,
            child_rc, child_stderr, child_written, child_ops, child_tried, child_environ>>
tuVars == <<tuning_runs, tuning_trials, tuning_layer_decisions, t_tx, t_pc, t_call, t_ret,
            tu_saved, tu_applied>>
evVars == <<job_events, ev_seq, ev_tx, ev_pc, ev_ret, r_pc, r_start, r_current, r_k,
            r_events, r_next, r_delivered>>
liveVars == <<live_states, ls_tx, ls_pc, ls_call, ls_ret, ls_last, ls_calls>>
auditVars == <<audit_events, structured_log>>
tuneVars == <<tn_pc, tn_args, tn_layer, tn_remaining, tn_seen, tn_selected, tn_index, tn_layer_results, tn_evaluated, tn_best, tn_runs, tn_grid, tn_executed, tn_ret>>
mdVars == <<market_ohlcv, company_fundamentals, corporate_actions, analyst_ratings,
            world_manifests, kite_candle_cache, md_audit, md_ops, upstream_calls, md_call, md_ret>>
bcVars == <<bc_call, bc_ret>>
cgVars == <<cg_call, cg_ret>>
cbVars == <<cb_pc, cb_call, cb_ret, connector_sessions, session_writes>>
btVars == <<backtest_runs, bt_files, bt_audit, bt_calls, bt_ret>>
trVars == <<tr_pc, tr_context, tr_trace_id, tr_token, tr_requests, tr_rows>>
vars == <<clock, dbLock, oauthVars, verVars, jobVars, rlVars, sbVars, tuVars, evVars, liveVars, auditVars, tuneVars, mdVars, bcVars, cgVars, cbVars, btVars, trVars>>

\* What the functions of one part of the store leave alone.
notOAuth == <<verVars, jobVars, rlVars, sbVars, tuVars, evVars, liveVars, auditVars, tuneVars, mdVars, bcVars, cgVars, cbVars, btVars, trVars>>
notVersions == <<clock, oauthVars, jobVars, rlVars, sbVars, tuVars, evVars, liveVars, auditVars, tuneVars, mdVars, bcVars, cgVars, cbVars, btVars, trVars>>
notJobs == <<oauthVars, verVars, rlVars, sbVars, tuVars, evVars, liveVars, auditVars, tuneVars, mdVars, bcVars, cgVars, cbVars, btVars, trVars>>
notRateLimit == <<clock, dbLock, oauthVars, verVars, jobVars, sbVars, tuVars, evVars, liveVars, auditVars, tuneVars, mdVars, bcVars, cgVars, cbVars, btVars, trVars>>
notSandbox == <<clock, dbLock, oauthVars, verVars, jobVars, rlVars, tuVars, evVars, liveVars, auditVars, tuneVars, mdVars, bcVars, cgVars, cbVars, btVars, trVars>>
notTuning == <<clock, oauthVars, verVars, jobVars, rlVars, sbVars, evVars, liveVars, auditVars, tuneVars, mdVars, bcVars, cgVars, cbVars, btVars, trVars>>
notJobEvents == <<clock, oauthVars, verVars, jobVars, rlVars, sbVars, tuVars, liveVars, auditVars, tuneVars, mdVars, bcVars, cgVars, cbVars, btVars, trVars>>
notLive == <<oauthVars, verVars, jobVars, rlVars, sbVars, tuVars, evVars, auditVars, tuneVars, mdVars, bcVars, cgVars, cbVars, btVars, trVars>>
notAudit == <<oauthVars, verVars, jobVars, rlVars, sbVars, tuVars, evVars, liveVars, tuneVars, mdVars, bcVars, cgVars, cbVars, btVars, trVars>>
notTune == <<clock, dbLock, oauthVars, verVars, jobVars, rlVars, sbVars, tuVars, evVars, liveVars, auditVars, mdVars, bcVars, cgVars, cbVars, btVars, trVars>>
notMarket == <<clock, dbLock, oauthVars, verVars, jobVars, rlVars, sbVars, tuVars, evVars, liveVars, auditVars, tuneVars, bcVars, cgVars, cbVars, btVars, trVars>>
notMarketRl == <<clock, dbLock, oauthVars, verVars, jobVars, sbVars, tuVars, evVars, liveVars, auditVars, tuneVars, bcVars, cgVars, cbVars, btVars, trVars>>
notBoundary == <<clock, dbLock, oauthVars, verVars, jobVars, rlVars, sbVars, tuVars, evVars, liveVars, auditVars, tuneVars, mdVars, cgVars, cbVars, btVars, trVars>>
notChoiceGrid == <<clock, dbLock, oauthVars, verVars, jobVars, rlVars, sbVars, tuVars, evVars, liveVars, auditVars, tuneVars, mdVars, bcVars, cbVars, btVars, trVars>>
notCallback == <<clock, verVars, jobVars, rlVars, sbVars, tuVars, evVars, liveVars, auditVars, tuneVars, mdVars, bcVars, cgVars, btVars, trVars>>
notBacktest == <<clock, dbLock, oauthVars, jobVars, rlVars, sbVars, tuVars, evVars, liveVars, auditVars, tuneVars, bcVars, cgVars, cbVars, trVars>>
notTrace == <<clock, dbLock, oauthVars, verVars, jobVars, rlVars, sbVars, tuVars, evVars, liveVars, auditVars, tuneVars, mdVars, bcVars, cgVars, cbVars, btVars>>

\* ---------------------------------------------------------------- OAuth
Connectors == {"kite", "tv"}
States == {"s1", "s2"}
MaxAges == {0, 1}
NoCall == [connector |-> "", state |-> "", max_age |-> 0, consumed_at |-> NULL]

\* Rows selected by `WHERE connector = ? AND state = ?`.
SelectState(table, connector, state) ==
  {r \in table : r.connector = connector /\ r.state = state}

\* A plausible slip: the pending SELECT without its `connector = ?`.
SelectPendingAnyConnector(table, connector) ==
  {r \in table : r.consumed_at = NULL}

\* Rows selected by `WHERE connector = ? AND consumed_at IS NULL`.
SelectPending(table, connector) ==
  {r \in table : r.connector = connector /\ r.consumed_at = NULL}

\* `age.total_seconds() > max_age_seconds`
Expired(created_at, now, max_age) == (now - created_at) > max_age

\* A plausible slip: the UPDATE without its `consumed_at IS NULL` guard.
UpdateTargetsUnguarded(table, connector, state) ==
  {r \in table : r.connector = connector /\ r.state = state}

\* Rows hit by `UPDATE ... WHERE connector = ? AND state = ? AND consumed_at IS NULL`.
UpdateTargets(table, connector, state) ==
  {r \in table : r.connector = connector /\ r.state = state /\ r.consumed_at = NULL}

\* The table after `SET consumed_at = ?` on `targets`.
SetConsumed(table, targets, consumed_at) ==
  (table \ targets) \cup {[r EXCEPT !.consumed_at = consumed_at] : r \in targets}

InitOAuth ==
  /\ oauth_states = {}
  /\ oauth_tx = {}
  /\ o_pc = [p \in Procs |-> "idle"]
  /\ o_call = [p \in Procs |-> NoCall]
  /\ o_ret = "none"
  /\ o_ok = [s \in States |-> 0]

\* create_oauth_state: one INSERT and its commit.  `state` is the primary key.
create_oauth_state(connector, state) ==
  /\ dbLock = NoProc
  /\ connector # "" /\ state # ""
  /\ \A r \in oauth_states : r.state # state
  /\ oauth_states' = oauth_states \cup
       {[state |-> state, connector |-> connector, created_at |-> clock, consumed_at |-> NULL]}
  /\ oauth_tx' = oauth_states'
  /\ UNCHANGED <<clock, dbLock, o_pc, o_call, o_ret, o_ok, notOAuth>>

\* A call that raises before it writes: the caller is idle again.
OAuthRaise(p, err) ==
  /\ o_pc' = [o_pc EXCEPT ![p] = "idle"]
  /\ o_call' = [o_call EXCEPT ![p] = NoCall]
  /\ o_ret' = err
  /\ UNCHANGED <<clock, dbLock, oauth_states, oauth_tx, o_ok, notOAuth>>

\* The call goes on to its UPDATE, with consumed_at = _utc_now() in hand.
OAuthSelected(p, connector, state, max_age) ==
  /\ o_pc' = [o_pc EXCEPT ![p] = "selected"]
  /\ o_call' = [o_call EXCEPT ![p] =
       [connector |-> connector, state |-> state, max_age |-> max_age,
        consumed_at |-> clock]]
  /\ UNCHANGED <<clock, dbLock, oauth_states, oauth_tx, o_ret, o_ok, notOAuth>>

\* consume_oauth_state up to its UPDATE: argument checks, the SELECT, the
\* consumed and age checks, and consumed_at = _utc_now().
consume_oauth_state_select(p, connector, state, max_age) ==
  /\ o_pc[p] = "idle"
  /\ IF connector = "" \/ state = "" \/ max_age <= 0
       THEN OAuthRaise(p, "required")
       ELSE LET rows == SelectState(oauth_states, connector, state) IN
            IF rows = {} THEN OAuthRaise(p, "not_found")
            ELSE LET row == CHOOSE r \in rows : TRUE IN
                 IF row.consumed_at # NULL THEN OAuthRaise(p, "already_consumed")
                 ELSE IF Expired(row.created_at, clock, max_age) THEN OAuthRaise(p, "expired")
                 ELSE OAuthSelected(p, connector, state, max_age)

\* consume_latest_oauth_state up to its UPDATE.
consume_latest_oauth_state_select(p, connector, max_age) ==
  /\ o_pc[p] = "idle"
  /\ IF connector = "" \/ max_age <= 0
       THEN OAuthRaise(p, "required")
       ELSE LET rows == SelectPending(oauth_states, connector) IN
            IF rows = {} THEN OAuthRaise(p, "no_pending")
            ELSE IF Cardinality(rows) > 1 THEN OAuthRaise(p, "multiple_pending")
            ELSE LET row == CHOOSE r \in rows : TRUE IN
                 IF Expired(row.created_at, clock, max_age) THEN OAuthRaise(p, "expired")
                 ELSE OAuthSelected(p, connector, row.state, max_age)

\* The UPDATE of either function: it opens the transaction, takes the write
\* lock and reads the committed table; `rowcount != 1` raises, which closes
\* the connection and rolls back.
consume_update(p) ==
  /\ o_pc[p] = "selected"
  /\ dbLock = NoProc
  /\ LET c == o_call[p]
         targets == UpdateTargets(oauth_states, c.connector, c.state) IN
     IF Cardinality(targets) # 1
       THEN OAuthRaise(p, "failed_to_consume")
       ELSE /\ oauth_tx' = SetConsumed(oauth_states, targets, c.consumed_at)
            /\ dbLock' = p
            /\ o_pc' = [o_pc EXCEPT ![p] = "updated"]
            /\ UNCHANGED <<clock, oauth_states, o_call, o_ret, o_ok, notOAuth>>

\* The UPDATE finds the database locked by another connection until SQLite's
\* busy timeout: sqlite3.OperationalError.
consume_busy(p) ==
  /\ o_pc[p] = "selected"
  /\ dbLock \notin {NoProc, p}
  /\ OAuthRaise(p, "locked")

\* conn.commit() and the normal return.
consume_commit(p) ==
  /\ o_pc[p] = "updated"
  /\ dbLock = p
  /\ oauth_states' = oauth_tx
  /\ dbLock' = NoProc
  /\ o_pc' = [o_pc EXCEPT ![p] = "idle"]
  /\ o_ret' = "ok"
  /\ o_ok' = [o_ok EXCEPT ![o_call[p].state] = @ + 1]
  /\ o_call' = [o_call EXCEPT ![p] = NoCall]
  /\ UNCHANGED <<clock, oauth_tx, notOAuth>>

\* Wall-clock time passes.
Tick ==
  /\ clock < MaxClock
  /\ clock' = clock + 1
  /\ UNCHANGED <<dbLock, oauthVars, verVars, jobVars, rlVars, sbVars, tuVars, evVars, liveVars, auditVars, tuneVars, mdVars, bcVars, cgVars, cbVars, btVars, trVars>>

\* ------------------------------------------------- strategy versions
MaxRows == 4

StrategyIds == {"a", "b"}      \* spec["strategy_id"], supplied by the caller
StrategyNames == {"X", "Y"}    \* strategy_name of a code strategy
NoSave == [kind |-> "none", strategy_id |-> "", name |-> "", code_id |-> 0, max_version |-> 0]

Max(S) == CHOOSE m \in S : \A x \in S : x <= m

\* uuid.uuid4(): an id no row of the table has.
FreshId(rows) == Cardinality(rows) + 1

\* A plausible slip: the SELECT MAX without its `WHERE strategy_id = ?`.
MaxVersionAnyStrategy(rows, sid) ==
  Max({0} \cup {r.version_number : r \in rows})

\* `SELECT COALESCE(MAX(version_number), 0) ... WHERE strategy_id = ?`
MaxVersion(rows, sid) ==
  Max({0} \cup {r.version_number : r \in {x \in rows : x.strategy_id = sid}})

\* A plausible slip: a table created without UNIQUE(strategy_id, version_number).
UniqueVersionOkNoConstraint(rows, sid, n) == TRUE

\* UNIQUE(strategy_id, version_number) lets the row in.
UniqueVersionOk(rows, sid, n) ==
  \A r \in rows : ~(r.strategy_id = sid /\ r.version_number = n)

\* `SELECT id FROM code_strategies WHERE name = ?`
SelectCodeStrategy(rows, name) == {r \in rows : r.name = name}

InitVersions ==
  /\ strategies = {}
  /\ strategy_versions = {}
  /\ code_strategies = {}
  /\ code_strategy_versions = {}
  /\ v_tx = [strategies |-> {}, strategy_versions |-> {},
             code_strategies |-> {}, code_strategy_versions |-> {}]
  /\ v_pc = [p \in Procs |-> "idle"]
  /\ v_call = [p \in Procs |-> NoSave]
  /\ v_last = "none"
  /\ sv_returned = [s \in StrategyIds |-> <<>>]
  /\ cs_returned = [i \in 1..MaxRows |-> <<>>]

Committed ==
  [strategies |-> strategies, strategy_versions |-> strategy_versions,
   code_strategies |-> code_strategies, code_strategy_versions |-> code_strategy_versions]

\* Calls are started only while the version tables have room for their rows.
RoomToSave ==
  Cardinality(strategy_versions) + Cardinality(code_strategy_versions)
    + Cardinality({p \in Procs : v_pc[p] # "idle"}) < MaxRows

\* A save call ends by an exception: the connection closes, an open
\* transaction is rolled back and its lock released.
SaveRaise(p, err) ==
  /\ v_pc' = [v_pc EXCEPT ![p] = "idle"]
  /\ v_call' = [v_call EXCEPT ![p] = NoSave]
  /\ v_last' = err
  /\ dbLock' = IF dbLock = p THEN NoProc ELSE dbLock
  /\ UNCHANGED <<strategies, strategy_versions, code_strategies, code_strategy_versions,
                 v_tx, sv_returned, cs_returned, notVersions>>

\* save_strategy_version up to its SELECT: the strategy_id check and
\* INSERT OR IGNORE INTO strategies, which opens the transaction.
save_strategy_version_begin(p, strategy_id) ==
  /\ v_pc[p] = "idle"
  /\ RoomToSave
  /\ IF strategy_id = ""
       THEN SaveRaise(p, "required")
       ELSE /\ dbLock = NoProc
            /\ dbLock' = p
            /\ v_tx' = [Committed EXCEPT !.strategies = @ \cup {strategy_id}]
            /\ v_pc' = [v_pc EXCEPT ![p] = "sv_begun"]
            /\ v_call' = [v_call EXCEPT ![p] =
                 [NoSave EXCEPT !.kind = "classic", !.strategy_id = strategy_id]]
            /\ UNCHANGED <<strategies, strategy_versions, code_strategies,
                           code_strategy_versions, v_last, sv_returned, cs_returned,
                           notVersions>>

\* save_strategy_version from its SELECT MAX to its return: the SELECT and
\* the INSERT run inside the open transaction, then commit().
save_strategy_version_insert(p) ==
  /\ v_pc[p] = "sv_begun"
  /\ dbLock = p
  /\ LET sid == v_call[p].strategy_id
         next_version == MaxVersion(v_tx.strategy_versions, sid) + 1
         row == [id |-> FreshId(v_tx.strategy_versions), strategy_id |-> sid,
                 version_number |-> next_version] IN
     IF ~UniqueVersionOk(v_tx.strategy_versions, sid, next_version)
       THEN SaveRaise(p, "integrity")
       ELSE /\ strategies' = v_tx.strategies
            /\ strategy_versions' = v_tx.strategy_versions \cup {row}
            /\ v_tx' = [v_tx EXCEPT !.strategy_versions = @ \cup {row}]
            /\ dbLock' = NoProc
            /\ v_pc' = [v_pc EXCEPT ![p] = "idle"]
            /\ v_call' = [v_call EXCEPT ![p] = NoSave]
            /\ v_last' = "ok"
            /\ sv_returned' = [sv_returned EXCEPT ![sid] = Append(@, next_version)]
            /\ UNCHANGED <<code_strategies, code_strategy_versions, cs_returned, notVersions>>

\* save_code_strategy_version up to its INSERTs: the argument checks, then
\* `SELECT id ... WHERE name = ?` and, for a strategy that exists, SELECT
\* MAX; both read the committed tables, outside any transaction.
save_code_strategy_version_select(p, name, source_code) ==
  /\ v_pc[p] = "idle"
  /\ RoomToSave
  /\ IF name = "" \/ source_code = ""
       THEN SaveRaise(p, "required")
       ELSE LET found == SelectCodeStrategy(code_strategies, name) IN
            /\ IF found = {}
                 THEN /\ v_pc' = [v_pc EXCEPT ![p] = "cs_new"]
                      /\ v_call' = [v_call EXCEPT ![p] =
                           [NoSave EXCEPT !.kind = "code", !.name = name]]
                 ELSE \E row \in found :
                      /\ v_pc' = [v_pc EXCEPT ![p] = "cs_found"]
                      /\ v_call' = [v_call EXCEPT ![p] =
                           [NoSave EXCEPT !.kind = "code", !.name = name, !.code_id = row.id,
                              !.max_version = MaxVersion(code_strategy_versions, row.id)]]
            /\ UNCHANGED <<dbLock, strategies, strategy_versions, code_strategies,
                           code_strategy_versions, v_tx, v_last, sv_returned, cs_returned,
                           notVersions>>

\* New strategy: INSERT INTO code_strategies opens the transaction; SELECT
\* MAX and the INSERT of the version run inside it.
save_code_strategy_version_insert_new(p) ==
  /\ v_pc[p] = "cs_new"
  /\ dbLock = NoProc
  /\ LET strategy_id == FreshId(code_strategies)
         version_number == MaxVersion(code_strategy_versions, strategy_id) + 1
         row == [id |-> FreshId(code_strategy_versions), strategy_id |-> strategy_id,
                 version_number |-> version_number] IN
     IF ~UniqueVersionOk(code_strategy_versions, strategy_id, version_number)
       THEN SaveRaise(p, "integrity")
       ELSE /\ dbLock' = p
            /\ v_tx' = [Committed EXCEPT
                 !.code_strategies = @ \cup {[id |-> strategy_id, name |-> v_call[p].name]},
                 !.code_strategy_versions = @ \cup {row}]
            /\ v_pc' = [v_pc EXCEPT ![p] = "cs_inserted"]
            /\ v_call' = [v_call EXCEPT ![p] =
                 [@ EXCEPT !.code_id = strategy_id, !.max_version = version_number - 1]]
            /\ UNCHANGED <<strategies, strategy_versions, code_strategies,
                           code_strategy_versions, v_last, sv_returned, cs_returned,
                           notVersions>>

\* Existing strategy: the INSERT of the version opens the transaction, with
\* the version number computed from the earlier SELECT MAX; the UNIQUE
\* constraint is checked against the table as it is now.
save_code_strategy_version_insert_found(p) ==
  /\ v_pc[p] = "cs_found"
  /\ dbLock = NoProc
  /\ LET strategy_id == v_call[p].code_id
         version_number == v_call[p].max_version + 1
         row == [id |-> FreshId(code_strategy_versions), strategy_id |-> strategy_id,
                 version_number |-> version_number] IN
     IF ~UniqueVersionOk(code_strategy_versions, strategy_id, version_number)
       THEN SaveRaise(p, "integrity")
       ELSE /\ dbLock' = p
            /\ v_tx' = [Committed EXCEPT !.code_strategy_versions = @ \cup {row}]
            /\ v_pc' = [v_pc EXCEPT ![p] = "cs_inserted"]
            /\ UNCHANGED <<strategies, strategy_versions, code_strategies,
                           code_strategy_versions, v_call, v_last, sv_returned, cs_returned,
                           notVersions>>

\* An INSERT that would open the transaction finds the database locked
\* until the busy timeout: sqlite3.OperationalError.
save_busy(p) ==
  /\ v_pc[p] \in {"cs_new", "cs_found"}
  /\ dbLock \notin {NoProc, p}
  /\ SaveRaise(p, "locked")

\* save_code_strategy_version: conn.commit() and the return.
save_code_strategy_version_commit(p) ==
  /\ v_pc[p] = "cs_inserted"
  /\ dbLock = p
  /\ code_strategies' = v_tx.code_strategies
  /\ code_strategy_versions' = v_tx.code_strategy_versions
  /\ dbLock' = NoProc
  /\ v_pc' = [v_pc EXCEPT ![p] = "idle"]
  /\ v_last' = "ok"
  /\ cs_returned' = [cs_returned EXCEPT ![v_call[p].code_id] =
                       Append(@, v_call[p].max_version + 1)]
  /\ v_call' = [v_call EXCEPT ![p] = NoSave]
  /\ UNCHANGED <<strategies, strategy_versions, v_tx, sv_returned, notVersions>>


\* ----------------------------------------------------------------- jobs
JobIds == {"j1", "j2"}          \* str(uuid.uuid4())
JobStatuses == {"queued", "running", "completed", "failed"}
StatusArgs == JobStatuses \cup {"cancelled"}   \* update_job_status takes any string
ResultArgs == {"None", "r1"}    \* result: Optional[dict]
ErrorArgs == {"None", "e1"}     \* error_text: Optional[str]
FallbackArgs == {"None", "f1"}  \* fallback_reason: Optional[str]
LegacyDisabled == "e1"          \* the error text _run_backtest_job records

InitJobs == jobs = {}

\* create_job: one INSERT, status "queued", and its commit.
create_job(job_id) ==
  /\ dbLock = NoProc
  /\ \A j \in jobs : j.id # job_id
  /\ jobs' = jobs \cup
       {[id |-> job_id, status |-> "queued", result |-> "None", error_text |-> "None",
         fallback_reason |-> "None", created_at |-> clock, updated_at |-> clock]}
  /\ UNCHANGED <<clock, dbLock, notJobs>>

\* The table after `UPDATE jobs SET status = ?, result_json = ?, error_text = ?,
\* fallback_reason = ?, updated_at = ? WHERE id = ?`.
UpdateJobRow(table, job_id, status, result, error_text, fallback_reason, now) ==
  {IF j.id = job_id
     THEN [j EXCEPT !.status = status, !.result = result, !.error_text = error_text,
                    !.fallback_reason = fallback_reason, !.updated_at = now]
     ELSE j : j \in table}

\* update_job_status: the UPDATE and its commit.
update_job_status(job_id, status, result, error_text, fallback_reason) ==
  /\ dbLock = NoProc
  /\ jobs' = UpdateJobRow(jobs, job_id, status, result, error_text, fallback_reason, clock)
  /\ UNCHANGED <<clock, dbLock, notJobs>>

\* _run_backtest_job: the legacy async job is marked failed.
run_backtest_job(job_id) ==
  /\ job_id \in JobIds
  /\ update_job_status(job_id, "failed", "None", LegacyDisabled, "None")

JobTick ==
  /\ clock < MaxClock
  /\ clock' = clock + 1
  /\ UNCHANGED <<dbLock, oauthVars, verVars, jobVars, rlVars, sbVars, tuVars, evVars, liveVars, auditVars, tuneVars, mdVars, bcVars, cgVars, cbVars, btVars, trVars>>

\* --------------------------------------------------------- rate limiter
MaxMono == 3

Providers == {"kite"}                 \* a provider provider_limit knows
ProviderArgs == {"kite", "KITE", "x"}   \* the strings callers may pass
\* FIN_AGENT_RATE_LIMIT_<PROVIDER>_MAX_REQUESTS / _WINDOW_SECONDS
StartLimit == [max_requests |-> 1, window_seconds |-> 2]
Limits == {StartLimit, [max_requests |-> 2, window_seconds |-> 1]}
NoLimitCall == [provider |-> "", cfg |-> StartLimit, now |-> 0]
NoOutcome == [provider |-> "", outcome |-> "none", now |-> 0, window_seconds |-> 0,
              retry_after_seconds |-> 0, message |-> 0]

\* provider.strip().lower()
ProviderKey(provider) == IF provider = "KITE" THEN "kite" ELSE provider

\* `[t for t in _STATE.get(provider, []) if (now - t) < cfg.window_seconds]`
InWindow(timestamps, now, window_seconds) ==
  LET F[i \in 0..Len(timestamps)] ==
        IF i = 0 THEN <<>>
        ELSE IF (now - timestamps[i]) < window_seconds
             THEN Append(F[i - 1], timestamps[i]) ELSE F[i - 1]
  IN F[Len(timestamps)]

\* `max(0.0, cfg.window_seconds - (now - timestamps[0]))`
RetryAfter(timestamps, now, window_seconds) ==
  LET r == window_seconds - (now - timestamps[1]) IN IF r > 0 THEN r ELSE 0

\* The monotonic clock is finer than the third decimal of a second: this
\* many of its ticks make 0.001 s. Times and windows are counted in ticks.
TicksPerMilli == 3

\* `retry_after_seconds={retry_after_seconds:.3f}` of the error message: the
\* value rounded to the nearest 0.001 s, the only form the caller gets.
FormatRetryAfter(retry_after_seconds) ==
  ((2 * retry_after_seconds + TicksPerMilli) \div (2 * TicksPerMilli)) * TicksPerMilli

InitRateLimit ==
  /\ mono = 0
  /\ rl_env = [k \in Providers |-> StartLimit]
  /\ rl_state = [a \in ProviderArgs |-> <<>>]
  /\ rl_pc = [t \in Procs |-> "idle"]
  /\ rl_call = [t \in Procs |-> NoLimitCall]
  /\ rl_last = NoOutcome
  /\ rl_admitted = [k \in Providers |-> <<>>]

\* The process environment changes: provider_limit reads it at every call.
setenv(key, limit) ==
  /\ rl_env[key] # limit
  /\ rl_env' = [rl_env EXCEPT ![key] = limit]
  /\ UNCHANGED <<mono, rl_state, rl_pc, rl_call, rl_last, rl_admitted, notRateLimit>>

\* enforce_provider_limit up to the lock: cfg = provider_limit(provider),
\* which raises for a provider it does not know, and now = time.monotonic().
enforce_provider_limit_now(t, provider) ==
  /\ rl_pc[t] = "idle"
  /\ IF ProviderKey(provider) \notin Providers
       THEN /\ rl_last' = [NoOutcome EXCEPT !.provider = provider, !.outcome = "unsupported"]
            /\ UNCHANGED <<rl_pc, rl_call>>
       ELSE /\ rl_pc' = [rl_pc EXCEPT ![t] = "timed"]
            /\ rl_call' = [rl_call EXCEPT ![t] = [provider |-> provider, cfg |-> rl_env[ProviderKey(provider)],
                                                    now |-> mono]]
            /\ UNCHANGED rl_last
  /\ UNCHANGED <<mono, rl_env, rl_state, rl_admitted, notRateLimit>>

\* rl_admitted after a call of the provider leaves the lock admitted at
\* this moment: the moments of the admitted calls that lie less than
\* window_seconds back, and this one.
Admitted(key, window_seconds) ==
  [rl_admitted EXCEPT ![key] = Append(InWindow(@, mono, window_seconds), mono)]

\* The block under _LOCK: drop the timestamps out of the window, then
\* raise provider_rate_limited or append now.
enforce_provider_limit_locked(t) ==
  /\ rl_pc[t] = "timed"
  /\ LET provider == rl_call[t].provider
         now == rl_call[t].now
         cfg == rl_call[t].cfg
         timestamps == InWindow(rl_state[provider], now, cfg.window_seconds) IN
     IF Len(timestamps) >= cfg.max_requests
       THEN /\ rl_last' = [provider |-> provider, outcome |-> "limited", now |-> now,
                           window_seconds |-> cfg.window_seconds,
                           retry_after_seconds |->
                             RetryAfter(timestamps, now, cfg.window_seconds),
                           message |-> FormatRetryAfter(
                             RetryAfter(timestamps, now, cfg.window_seconds))]
            /\ UNCHANGED <<rl_state, rl_admitted>>
       ELSE /\ rl_state' = [rl_state EXCEPT ![provider] = Append(timestamps, now)]
            /\ rl_admitted' = Admitted(ProviderKey(provider), cfg.window_seconds)
            /\ rl_last' = [provider |-> provider, outcome |-> "admitted", now |-> now,
                           window_seconds |-> cfg.window_seconds,
                           retry_after_seconds |-> 0, message |-> 0]
  /\ rl_pc' = [rl_pc EXCEPT ![t] = "idle"]
  /\ rl_call' = [rl_call EXCEPT ![t] = NoLimitCall]
  /\ UNCHANGED <<mono, rl_env, notRateLimit>>

\* Monotonic time passes.
MonoTick ==
  /\ mono < MaxMono
  /\ mono' = mono + 1
  /\ UNCHANGED <<rl_env, rl_state, rl_pc, rl_call, rl_last, rl_admitted, notRateLimit>>

\* ------------------------------------------------------- sandbox runner
MaxLimit == 2       \* largest timeout_seconds, cpu_seconds and memory_mb of a call
MaxChildOps == 2    \* open calls one strategy program makes

LimitArgs == 0..MaxLimit
MaxWall == MaxLimit + 1
DirNames == {"sb1", "sb2"}                \* names tempfile.mkdtemp can pick
SourceArgs == {"", "ok", "surrogate"}     \* blank, plain text, text with a lone surrogate
InputArgs == {"json", "set"}              \* a JSON value, a value holding a Python set
OpenApis == {"builtins.open", "io.open", "os.open", "pathlib.Path.open"}
Modes == {<<"r">>, <<"w">>, <<"a">>, <<"x">>, <<"r", "+">>}
ExitKinds == {"result", "exception", "sys.exit(0)"}

\* paths.artifacts_dir / "code-runs" / run_id, and the directory mkdtemp made
ArtifactDir == <<"artifacts", "code-runs", "run">>
SandboxDir(d) == <<"tmp", d>>
ResultPath == ArtifactDir \o <<"result.json">>

\* File names a strategy program opens; the child's cwd is the sandbox dir.
FileArgs ==
  { [abs |-> TRUE, parts |-> ArtifactDir \o <<"out.txt">>],
    [abs |-> TRUE, parts |-> ArtifactDir],
    [abs |-> TRUE, parts |-> ArtifactDir \o <<"..", "esc.txt">>],
    [abs |-> TRUE, parts |-> <<"tmp", "forbidden-write.txt">>],
    [abs |-> FALSE, parts |-> <<"rel.txt">>] }

NoRun == [source_code |-> "", input |-> "json", timeout_seconds |-> 0,
          cpu_seconds |-> 0, sandbox_dir |-> ""]
NoRunOutcome == [outcome |-> "none", sandbox_dir |-> ""]

\* Path(file).resolve(): made absolute against the cwd, ".." folded away.
RECURSIVE Normalize(_, _)
Normalize(parts, acc) ==
  IF parts = <<>> THEN acc
  ELSE IF Head(parts) = ".."
       THEN Normalize(Tail(parts),
                      IF acc = <<>> THEN acc ELSE SubSeq(acc, 1, Len(acc) - 1))
       ELSE Normalize(Tail(parts), Append(acc, Head(parts)))

Resolve(file, cwd) ==
  Normalize(IF file.abs THEN file.parts ELSE cwd \o file.parts, <<>>)

\* candidate.parents
Parents(candidate) == {SubSeq(candidate, 1, n) : n \in 0..(Len(candidate) - 1)}

\* `any(flag in mode for flag in ("w", "a", "x", "+"))`
IsWrite(mode) == \E i \in 1..Len(mode) : mode[i] \in {"w", "a", "x", "+"}

\* `candidate != artifact_root and artifact_root not in candidate.parents`
Blocked(candidate, artifact_root) ==
  candidate # artifact_root /\ artifact_root \notin Parents(candidate)

\* strategy_path.write_text(source_code, encoding="utf-8") and json.dumps(...)
Utf8Encodable(source_code) == source_code # "surrogate"
JsonSerializable(input) == input # "set"

\* the argument checks at the head of run_code_strategy_sandbox
ArgError(source_code, timeout_seconds, memory_mb, cpu_seconds) ==
  IF timeout_seconds <= 0 THEN "timeout_seconds must be positive"
  ELSE IF memory_mb <= 0 THEN "memory_mb must be positive"
  ELSE IF cpu_seconds <= 0 THEN "cpu_seconds must be positive"
  ELSE IF source_code = "" THEN "source_code is required"
  ELSE ""

NeverExpired(wall, timeout_seconds) == FALSE

\* subprocess.run(timeout=timeout_seconds): the deadline of communicate()
TimeoutExpired(wall, timeout_seconds) == wall >= timeout_seconds

\* shutil.rmtree(sandbox_dir, ignore_errors=True)
Rmtree(files, d) == {f \in files : SandboxDir(d) \notin Parents(f)}

\* what the function does with proc once subprocess.run has returned
RunOutcome(rc, stderr, files) ==
  IF rc # 0
  THEN IF rc < 0 THEN "sandbox timeout or resource limit exceeded"
       ELSE IF "outside artifact dir blocked" \in stderr
            THEN "sandbox blocked write outside artifact dir"
            ELSE "sandbox execution failed"
  ELSE IF ResultPath \notin files
       THEN "sandbox execution failed: result artifact missing"
       ELSE "completed"

InitSandbox ==
  /\ sandbox_dirs = {}
  /\ sb_pc = "idle"
  /\ sb_call = NoRun
  /\ sb_ret = NoRunOutcome
  /\ child_pc = "none"
  /\ child_wall = 0
  /\ child_cpu = 0
  /\ child_rc = 0
  /\ child_stderr = {}
  /\ child_written = {}
  /\ child_ops = 0
  /\ child_tried = FALSE
  /\ child_environ = {}

\* run_code_strategy_sandbox up to tempfile.mkdtemp
run_code_strategy_sandbox_begin(source_code, input, timeout_seconds, memory_mb, cpu_seconds) ==
  /\ sb_pc = "idle"
  /\ child_pc' = "none"
  /\ child_wall' = 0
  /\ child_cpu' = 0
  /\ child_rc' = 0
  /\ child_stderr' = {}
  /\ child_written' = {}
  /\ child_ops' = 0
  /\ child_tried' = FALSE
  /\ child_environ' = {}
  /\ LET err == ArgError(source_code, timeout_seconds, memory_mb, cpu_seconds) IN
     IF err # ""
     THEN /\ sb_call' = NoRun
          /\ sb_ret' = [outcome |-> err, sandbox_dir |-> ""]
          /\ UNCHANGED <<sb_pc, sandbox_dirs>>
     ELSE \E d \in DirNames \ sandbox_dirs :
          /\ sandbox_dirs' = sandbox_dirs \cup {d}
          /\ sb_call' = [source_code |-> source_code, input |-> input,
                         timeout_seconds |-> timeout_seconds,
                         cpu_seconds |-> cpu_seconds, sandbox_dir |-> d]
          /\ sb_ret' = NoRunOutcome
          /\ sb_pc' = "created"
  /\ UNCHANGED notSandbox

\* the three write_text calls and the spawn of the harness
\* Names in os.environ of the API process.  PYTHONHOME, PYTHONPATH and
\* PYTHONUSERBASE are read by the interpreter the child is started with;
\* FIN_AGENT_HOME is the root of RuntimePaths; the secret and PATH stand for
\* every other variable of the host.
EnvNames == {"PATH", "PYTHONHOME", "PYTHONPATH", "PYTHONUSERBASE", "FIN_AGENT_HOME",
             "FIN_AGENT_KITE_API_SECRET"}
HostEnvirons == SUBSET EnvNames
ServerEnviron == {"PATH", "FIN_AGENT_HOME"}
PoppedNames == {"PYTHONHOME", "PYTHONPATH"}
RunNames == {"FIN_AGENT_ARTIFACT_DIR", "FIN_AGENT_STRATEGY_PATH", "FIN_AGENT_INPUT_PATH"}

\* env = os.environ.copy(); env.pop(...) twice; three assignments.  A pair
\* <<name, "host">> is a variable the child inherits with the host's value.
ChildEnv(environ) ==
  {<<n, "host">> : n \in environ \ PoppedNames} \cup {<<n, "runner">> : n \in RunNames}

\* the three write_text calls, the environment and the spawn of the harness
run_code_strategy_sandbox_spawn(environ) ==
  /\ sb_pc = "created"
  /\ IF ~Utf8Encodable(sb_call.source_code) \/ ~JsonSerializable(sb_call.input)
     THEN /\ sb_pc' = "idle"
          /\ sb_ret' = [outcome |-> IF ~Utf8Encodable(sb_call.source_code)
                                    THEN "UnicodeEncodeError" ELSE "TypeError",
                        sandbox_dir |-> sb_call.sandbox_dir]
          /\ UNCHANGED <<child_pc, child_environ>>
     ELSE /\ sb_pc' = "spawned"
          /\ child_pc' = "running"
          /\ child_environ' = ChildEnv(environ)
          /\ UNCHANGED sb_ret
  /\ UNCHANGED <<sandbox_dirs, sb_call, child_wall, child_cpu, child_rc, child_stderr,
                 child_written, child_ops, child_tried, notSandbox>>

\* The strategy program opens a file through one of Python's ways to open
\* one; only builtins.open is _guarded_open.  `caught` says whether the
\* program handles an exception the call raises.
child_open(api, file, mode, caught) ==
  /\ child_pc = "running"
  /\ child_ops < MaxChildOps
  /\ child_ops' = child_ops + 1
  /\ LET candidate == Resolve(file, SandboxDir(sb_call.sandbox_dir))
         outside == IsWrite(mode) /\ Blocked(candidate, ArtifactDir)
         guarded == api = "builtins.open" /\ outside
         raises == guarded \/ (IsWrite(mode) /\ candidate = ArtifactDir)
     IN /\ child_tried' = (child_tried \/ outside)
        /\ child_written' = IF IsWrite(mode) /\ ~raises
                            THEN child_written \cup {candidate} ELSE child_written
        /\ IF raises /\ ~caught
           THEN /\ child_pc' = "exited"
                /\ child_rc' = 1
                /\ child_stderr' = IF guarded THEN {"outside artifact dir blocked"}
                                   ELSE {"Traceback"}
           ELSE UNCHANGED <<child_pc, child_rc, child_stderr>>
  /\ UNCHANGED <<sandbox_dirs, sb_pc, sb_call, sb_ret, child_wall, child_cpu, child_environ, notSandbox>>

\* One second passes while the child runs, computing (busy) or waiting.
child_tick(busy) ==
  /\ child_pc = "running"
  /\ ~TimeoutExpired(child_wall, sb_call.timeout_seconds)
  /\ child_cpu < sb_call.cpu_seconds
  /\ child_wall < MaxWall
  /\ child_wall' = child_wall + 1
  /\ child_cpu' = IF busy THEN child_cpu + 1 ELSE child_cpu
  /\ UNCHANGED <<sandbox_dirs, sb_pc, sb_call, sb_ret, child_pc, child_rc, child_stderr,
                 child_written, child_ops, child_tried, child_environ, notSandbox>>

\* The harness ends: result.json written, an uncaught exception, or an
\* exit of the program before the harness writes the result.
child_exit(kind) ==
  /\ child_pc = "running"
  /\ child_pc' = "exited"
  /\ child_rc' = IF kind = "exception" THEN 1 ELSE 0
  /\ child_stderr' = IF kind = "exception" THEN {"Traceback"} ELSE {}
  /\ child_written' = IF kind = "result" THEN child_written \cup {ResultPath}
                      ELSE child_written
  /\ UNCHANGED <<sandbox_dirs, sb_pc, sb_call, sb_ret, child_wall, child_cpu,
                 child_ops, child_tried, child_environ, notSandbox>>

\* RLIMIT_CPU (soft = hard = cpu_seconds): the kernel kills the child.
preexec_limits_cpu ==
  /\ child_pc = "running"
  /\ child_cpu >= sb_call.cpu_seconds
  /\ child_pc' = "exited"
  /\ child_rc' = -9
  /\ UNCHANGED <<sandbox_dirs, sb_pc, sb_call, sb_ret, child_wall, child_cpu, child_stderr,
                 child_written, child_ops, child_tried, child_environ, notSandbox>>

\* subprocess.run reaches its deadline: it kills the child and raises
\* TimeoutExpired; the finally clause runs and ValueError is raised.
run_code_strategy_sandbox_timeout ==
  /\ sb_pc = "spawned"
  /\ child_pc = "running"
  /\ TimeoutExpired(child_wall, sb_call.timeout_seconds)
  /\ child_pc' = "killed"
  /\ child_rc' = -9
  /\ sandbox_dirs' = sandbox_dirs \ {sb_call.sandbox_dir}
  /\ child_written' = Rmtree(child_written, sb_call.sandbox_dir)
  /\ sb_ret' = [outcome |-> "sandbox timeout exceeded", sandbox_dir |-> sb_call.sandbox_dir]
  /\ sb_pc' = "idle"
  /\ UNCHANGED <<sb_call, child_wall, child_cpu, child_stderr, child_ops, child_tried,
                 child_environ, notSandbox>>

\* subprocess.run returns: the finally clause, then the checks on proc.
run_code_strategy_sandbox_finish ==
  /\ sb_pc = "spawned"
  /\ child_pc = "exited"
  /\ sandbox_dirs' = sandbox_dirs \ {sb_call.sandbox_dir}
  /\ child_written' = Rmtree(child_written, sb_call.sandbox_dir)
  /\ sb_ret' = [outcome |-> RunOutcome(child_rc, child_stderr, child_written),
                sandbox_dir |-> sb_call.sandbox_dir]
  /\ sb_pc' = "idle"
  /\ UNCHANGED <<sb_call, child_pc, child_wall, child_cpu, child_rc, child_stderr,
                 child_ops, child_tried, child_environ, notSandbox>>

\* ----------------------------------------------------------- tuning runs
MaxCandidates == 1  \* longest payload["evaluated_candidates"]
MaxLayers == 1      \* longest payload["tuning_plan"]["layers"]
MaxUpdates == 2     \* update_tuning_run calls that get past their read

\* A payload is a JSON object.  The keys the store reads
\* (tuning_run_id, evaluated_candidates, tuning_plan) are fields of the
\* record; `fields` holds its other keys as a dict: a set of <<key, value>>
\* pairs, a value being a string or again a dict.  json.dumps and json.loads
\* are inverse to each other on such values, so a row holds the payload.
Absent == "<absent>"                 \* what dict.get finds when the key is not there
Atom(a) == [kind |-> "atom", atom |-> a, items |-> {}]
Dict(items) == [kind |-> "dict", atom |-> "", items |-> items]
DictKeys(items) == {e[1] : e \in items}
DictGet(items, key) == (CHOOSE e \in items : e[1] = key)[2]

RunIdArgs == {"", "t1"}              \* payload.get("tuning_run_id", "")
UuidNames == {"u1"}                  \* values str(uuid.uuid4()) can take
TuningRunIds == (RunIdArgs \ {""}) \cup UuidNames
StrategyNameArgs == {"", "S"}
SeqsUpTo(S, n) == UNION {[1..k -> S] : k \in 0..n}

\* rows of payload["evaluated_candidates"]
ValidCandidate == [object |-> TRUE, run_id |-> "bt1", params |-> "dict",
                   metrics |-> "dict", score |-> "2"]
CandidateArgs ==
  { ValidCandidate,
    [ValidCandidate EXCEPT !.object = FALSE],
    [ValidCandidate EXCEPT !.run_id = Absent],
    [ValidCandidate EXCEPT !.params = "list"],
    [ValidCandidate EXCEPT !.metrics = "list"],
    [ValidCandidate EXCEPT !.score = "abc"] }

\* rows of payload["tuning_plan"]["layers"]
ValidLayer == [object |-> TRUE, layer |-> "l1", reason |-> "why", enabled |-> TRUE]
LayerArgs ==
  { ValidLayer,
    [ValidLayer EXCEPT !.object = FALSE],
    [ValidLayer EXCEPT !.layer = Absent],
    [ValidLayer EXCEPT !.reason = " ", !.enabled = FALSE] }

\* a key's value: not there (None), not of the expected type, or a list
NoList == [kind |-> "none", rows |-> <<>>]
EvaluatedArgs ==
  {NoList, [kind |-> "other", rows |-> <<>>]}
    \cup {[kind |-> "list", rows |-> r] : r \in SeqsUpTo(CandidateArgs, MaxCandidates)}
LayersArgs ==
  {NoList, [kind |-> "other", rows |-> <<>>]}
    \cup {[kind |-> "list", rows |-> r] : r \in SeqsUpTo(LayerArgs, MaxLayers)}
NoPlan == [kind |-> "none", layers |-> NoList]
PlanArgs ==
  {NoPlan, [kind |-> "other", layers |-> NoList]}
    \cup {[kind |-> "dict", layers |-> l] : l \in LayersArgs}
FieldsArgs == { {}, {<<"a", Dict({<<"a", Atom("1")>>})>>} }

NoPayload == [tuning_run_id |-> "", evaluated_candidates |-> NoList,
              tuning_plan |-> NoPlan, fields |-> {}]

\* the `updates` argument of update_tuning_run
UpdateArgs ==
  { {},
    {<<"a", Atom("1")>>},
    {<<"b", Atom("2")>>},
    {<<"a", Dict({<<"a", Atom("2")>>})>>},
    {<<"a", Dict({<<"b", Atom("2")>>})>>} }

\* dict.get(key, default), str.strip() and float() on the values above
Get(value, default) == IF value = Absent THEN default ELSE value
Strip(s) == IF s = " " THEN "" ELSE s
FloatRaises(score) == score \notin {"2"}
Float(score) == IF score = "2" THEN 2 ELSE 0

\* the checks save_tuning_run makes on one evaluated candidate, in order
CandidateError(row) ==
  IF ~row.object THEN "tuning payload evaluated_candidates rows must be objects"
  ELSE IF Strip(Get(row.run_id, "")) = ""
       THEN "tuning payload evaluated candidate missing run_id"
  ELSE IF row.params # "dict"
       THEN "tuning payload evaluated candidate params must be object"
  ELSE IF row.metrics # "dict"
       THEN "tuning payload evaluated candidate metrics must be object"
  ELSE IF FloatRaises(row.score)
       THEN "tuning payload evaluated candidate score must be numeric"
  ELSE ""

\* the checks save_tuning_run makes on one layer decision, in order
LayerError(layer) ==
  IF ~layer.object THEN "tuning payload tuning_plan.layers rows must be objects"
  ELSE IF Strip(Get(layer.layer, "")) = ""
       THEN "tuning payload layer decision missing layer"
  ELSE IF Strip(Get(layer.reason, "")) = ""
       THEN "tuning payload layer decision missing reason"
  ELSE ""

\* The payloads of save_tuning_run calls.  A payload whose candidates do not
\* pass has no tuning_plan here: the call ends before it looks at the plan.
PayloadArgs ==
  {payload \in [tuning_run_id : RunIdArgs, evaluated_candidates : EvaluatedArgs,
                tuning_plan : PlanArgs, fields : {{}}] :
     \/ payload.tuning_plan = NoPlan
     \/ payload.evaluated_candidates.kind = "none"
     \/ /\ payload.evaluated_candidates.kind = "list"
        /\ \A i \in 1..Len(payload.evaluated_candidates.rows) :
             CandidateError(payload.evaluated_candidates.rows[i]) = ""}
\* payloads of runs that are updated later: no candidates, no plan
SeedPayloads ==
  [tuning_run_id : RunIdArgs, evaluated_candidates : {NoList},
   tuning_plan : {NoPlan}, fields : FieldsArgs]

\* _merge_payload
RECURSIVE merge_payload(_, _)
merge_payload(base, updates) ==
  { <<key,
      IF key \notin DictKeys(updates) THEN DictGet(base, key)
      ELSE IF /\ DictGet(updates, key).kind = "dict"
              /\ key \in DictKeys(base)
              /\ DictGet(base, key).kind = "dict"
           THEN Dict(merge_payload(DictGet(base, key).items, DictGet(updates, key).items))
           ELSE DictGet(updates, key)>> : key \in DictKeys(base) \cup DictKeys(updates) }

CloseCommits(committed, tx) == tx

\* conn.close() at the end of `with connect(paths)` while a transaction is
\* open: the transaction is rolled back.
Close(committed, tx) == committed

TuningTables == [runs |-> tuning_runs, trials |-> tuning_trials,
                 layers |-> tuning_layer_decisions]
NoTx == [runs |-> {}, trials |-> <<>>, layers |-> <<>>]
TxSize(tables) == Cardinality(tables.runs) + Len(tables.trials) + Len(tables.layers)
NoTuningCall == [run_id |-> "", strategy_name |-> "", payload |-> NoPayload, i |-> 0,
                 updates |-> {}, updated |-> NoPayload]
NoTuningOutcome == [outcome |-> "none", rolled_back |-> 0]
TuningRunIdsOf(rows) == {r.id : r \in rows}

InitTuning ==
  /\ tuning_runs = {}
  /\ tuning_trials = <<>>
  /\ tuning_layer_decisions = <<>>
  /\ t_tx = NoTx
  /\ t_pc = [p \in Procs |-> "idle"]
  /\ t_call = [p \in Procs |-> NoTuningCall]
  /\ t_ret = NoTuningOutcome
  /\ tu_saved = [r \in TuningRunIds |-> {}]
  /\ tu_applied = [r \in TuningRunIds |-> <<>>]

\* A tuning call ends by an exception: the connection closes, which rolls
\* back the transaction it has open and releases the write lock.
TuningRaise(p, err) ==
  LET open == dbLock = p
      after == IF open THEN Close(TuningTables, t_tx) ELSE TuningTables
  IN /\ tuning_runs' = after.runs
     /\ tuning_trials' = after.trials
     /\ tuning_layer_decisions' = after.layers
     /\ t_ret' = [outcome |-> err,
                  rolled_back |-> IF open THEN TxSize(t_tx) - TxSize(TuningTables) ELSE 0]
     /\ dbLock' = IF open THEN NoProc ELSE dbLock
     /\ t_tx' = IF open THEN NoTx ELSE t_tx
     /\ t_pc' = [t_pc EXCEPT ![p] = "idle"]
     /\ t_call' = [t_call EXCEPT ![p] = NoTuningCall]
     /\ UNCHANGED <<tu_saved, tu_applied, notTuning>>

\* The call goes on inside its transaction.
TuningStep(p, pc, i, tx) ==
  /\ t_pc' = [t_pc EXCEPT ![p] = pc]
  /\ t_call' = [t_call EXCEPT ![p].i = i]
  /\ t_tx' = tx
  /\ UNCHANGED <<dbLock, tuning_runs, tuning_trials, tuning_layer_decisions, t_ret,
                 tu_saved, tu_applied, notTuning>>

\* save_tuning_run up to its first INSERT, which opens the transaction;
\* the caller's payload is one of `payloads`.
save_tuning_run_begin(p, strategy_name, payloads) ==
  /\ t_pc[p] = "idle"
  /\ IF Strip(strategy_name) = ""
     THEN TuningRaise(p, "strategy_name is required")
     ELSE IF dbLock # NoProc
     THEN TuningRaise(p, "database is locked")
     ELSE \E payload \in payloads :
          \E run_id \in IF Strip(payload.tuning_run_id) # ""
                        THEN {Strip(payload.tuning_run_id)}
                        ELSE UuidNames \ TuningRunIdsOf(tuning_runs) :
          IF run_id \in TuningRunIdsOf(tuning_runs)
          THEN TuningRaise(p, "UNIQUE constraint failed: tuning_runs.id")
          ELSE /\ dbLock' = p
               /\ t_tx' = [TuningTables EXCEPT !.runs =
                             @ \cup {[id |-> run_id, strategy_name |-> strategy_name,
                                      payload |-> payload, created_at |-> clock]}]
               /\ t_pc' = [t_pc EXCEPT ![p] = "candidates"]
               /\ t_call' = [t_call EXCEPT ![p] =
                               [NoTuningCall EXCEPT !.run_id = run_id,
                                                    !.strategy_name = strategy_name,
                                                    !.payload = payload, !.i = 1]]
               /\ t_ret' = NoTuningOutcome
               /\ UNCHANGED <<tuning_runs, tuning_trials, tuning_layer_decisions,
                              tu_saved, tu_applied, notTuning>>

\* save_tuning_run: one turn of the loop over evaluated_candidates.
save_tuning_run_candidate(p) ==
  /\ t_pc[p] = "candidates"
  /\ LET evaluated == t_call[p].payload.evaluated_candidates
         i == t_call[p].i
     IN IF evaluated.kind = "none"
        THEN TuningStep(p, "layers", 1, t_tx)
        ELSE IF evaluated.kind # "list"
        THEN TuningRaise(p, "tuning payload evaluated_candidates must be a list when provided")
        ELSE IF i > Len(evaluated.rows)
        THEN TuningStep(p, "layers", 1, t_tx)
        ELSE IF CandidateError(evaluated.rows[i]) # ""
        THEN TuningRaise(p, CandidateError(evaluated.rows[i]))
        ELSE TuningStep(p, "candidates", i + 1,
               [t_tx EXCEPT !.trials =
                  Append(@, [tuning_run_id |-> t_call[p].run_id,
                             backtest_run_id |-> Strip(Get(evaluated.rows[i].run_id, "")),
                             score |-> Float(evaluated.rows[i].score),
                             created_at |-> clock])])

\* save_tuning_run: one turn of the loop over tuning_plan.layers.
save_tuning_run_layer(p) ==
  /\ t_pc[p] = "layers"
  /\ LET tuning_plan == t_call[p].payload.tuning_plan
         layers == tuning_plan.layers
         i == t_call[p].i
     IN IF tuning_plan.kind = "none"
        THEN TuningStep(p, "commit", 0, t_tx)
        ELSE IF tuning_plan.kind # "dict"
        THEN TuningRaise(p, "tuning payload tuning_plan must be object when provided")
        ELSE IF layers.kind = "none"
        THEN TuningStep(p, "commit", 0, t_tx)
        ELSE IF layers.kind # "list"
        THEN TuningRaise(p, "tuning payload tuning_plan.layers must be list when provided")
        ELSE IF i > Len(layers.rows)
        THEN TuningStep(p, "commit", 0, t_tx)
        ELSE IF LayerError(layers.rows[i]) # ""
        THEN TuningRaise(p, LayerError(layers.rows[i]))
        ELSE TuningStep(p, "layers", i + 1,
               [t_tx EXCEPT !.layers =
                  Append(@, [tuning_run_id |-> t_call[p].run_id,
                             layer_name |-> Strip(Get(layers.rows[i].layer, "")),
                             enabled |-> IF layers.rows[i].enabled THEN 1 ELSE 0,
                             reason |-> Strip(Get(layers.rows[i].reason, "")),
                             created_at |-> clock])])

\* save_tuning_run: conn.commit() and the return of run_id.
save_tuning_run_commit(p) ==
  /\ t_pc[p] = "commit"
  /\ tuning_runs' = t_tx.runs
  /\ tuning_trials' = t_tx.trials
  /\ tuning_layer_decisions' = t_tx.layers
  /\ t_tx' = NoTx
  /\ dbLock' = NoProc
  /\ t_pc' = [t_pc EXCEPT ![p] = "idle"]
  /\ t_ret' = [outcome |-> "ok", rolled_back |-> 0]
  /\ tu_saved' = [tu_saved EXCEPT ![t_call[p].run_id] = t_call[p].payload.fields]
  /\ tu_applied' = [tu_applied EXCEPT ![t_call[p].run_id] = <<>>]
  /\ t_call' = [t_call EXCEPT ![p] = NoTuningCall]
  /\ UNCHANGED notTuning

\* number of update_tuning_run calls that are past their read
UpdatesStarted ==
  Cardinality({p \in Procs : t_pc[p] = "merged"})
    + Cardinality({<<r, i>> \in TuningRunIds \X (1..MaxUpdates) : i <= Len(tu_applied[r])})

\* update_tuning_run up to the merge: the argument checks, get_tuning_run
\* (a SELECT on a connection of its own) and _merge_payload.
update_tuning_run_read(p, tuning_run_id, updates) ==
  /\ t_pc[p] = "idle"
  /\ UpdatesStarted < MaxUpdates
  /\ IF Strip(tuning_run_id) = ""
     THEN TuningRaise(p, "tuning_run_id is required")
     ELSE IF updates = {}
     THEN /\ t_ret' = [outcome |-> "ok", rolled_back |-> 0]
          /\ UNCHANGED <<dbLock, tuning_runs, tuning_trials, tuning_layer_decisions,
                         t_tx, t_pc, t_call, tu_saved, tu_applied, notTuning>>
     ELSE IF tuning_run_id \notin TuningRunIdsOf(tuning_runs)
     THEN TuningRaise(p, "tuning_run not found")
     ELSE LET row == CHOOSE r \in tuning_runs : r.id = tuning_run_id
              current == row.payload
          IN /\ t_pc' = [t_pc EXCEPT ![p] = "merged"]
             /\ t_call' = [t_call EXCEPT ![p] =
                             [NoTuningCall EXCEPT
                                !.run_id = tuning_run_id, !.updates = updates,
                                !.updated = [current EXCEPT !.fields =
                                               merge_payload(current.fields, updates)]]]
             /\ UNCHANGED <<dbLock, tuning_runs, tuning_trials, tuning_layer_decisions,
                            t_tx, t_ret, tu_saved, tu_applied, notTuning>>

\* update_tuning_run: the UPDATE of payload_json and conn.commit().
update_tuning_run_write(p) ==
  /\ t_pc[p] = "merged"
  /\ IF dbLock # NoProc
     THEN TuningRaise(p, "database is locked")
     ELSE /\ tuning_runs' = {IF r.id = t_call[p].run_id
                             THEN [r EXCEPT !.payload = t_call[p].updated] ELSE r :
                             r \in tuning_runs}
          /\ tu_applied' = [tu_applied EXCEPT ![t_call[p].run_id] =
                              Append(@, t_call[p].updates)]
          /\ t_ret' = [outcome |-> "ok", rolled_back |-> 0]
          /\ t_pc' = [t_pc EXCEPT ![p] = "idle"]
          /\ t_call' = [t_call EXCEPT ![p] = NoTuningCall]
          /\ UNCHANGED <<dbLock, tuning_trials, tuning_layer_decisions, t_tx, tu_saved,
                         notTuning>>

\* ------------------------------------------------------------ job events
MaxEvents == 3      \* append_job_event calls whose INSERT goes through

EventTypes == {"progress"}
NoEvent == [id |-> 0, job_id |-> "", event_type |-> "", created_at |-> 0]
EventIds(rows) == {e.id : e \in rows}

\* id INTEGER PRIMARY KEY AUTOINCREMENT: one more than the largest id the
\* table holds or ever held (sqlite_sequence)
NextEventId(rows, seq) == Max(EventIds(rows) \cup {seq}) + 1

\* ORDER BY id ASC
RECURSIVE OrderById(_)
OrderById(rows) ==
  IF rows = {} THEN <<>>
  ELSE LET first == CHOOSE e \in rows : \A o \in rows : e.id <= o.id
       IN <<first>> \o OrderById(rows \ {first})

AfterIdOrEqual(id, last_id) == id >= last_id

\* WHERE id > ?
AfterId(id, last_id) == id > last_id

\* list_job_events_after: the SELECT and the list built from its rows
list_job_events_after(rows, last_id) ==
  OrderById({e \in rows : AfterId(e.id, last_id)})

CursorPastEvent(event) == event.id + 1

\* `current = event["id"]` in event_generator
CursorAfter(event) == event.id

InitJobEvents ==
  /\ job_events = {}
  /\ ev_seq = 0
  /\ ev_tx = NoEvent
  /\ ev_pc = [p \in Procs |-> "idle"]
  /\ ev_ret = "none"
  /\ r_pc = "stopped"
  /\ r_start = 0
  /\ r_current = 0
  /\ r_k = 0
  /\ r_events = <<>>
  /\ r_next = 0
  /\ r_delivered = <<>>

readerVars == <<r_pc, r_start, r_current, r_k, r_events, r_next, r_delivered>>

\* append_job_event up to its INSERT, which opens the transaction and gets
\* the row its id; it raises when another connection holds the write lock.
append_job_event_insert(p, job_id, event_type) ==
  /\ ev_pc[p] = "idle"
  /\ Cardinality(job_events) + (IF ev_tx = NoEvent THEN 0 ELSE 1) < MaxEvents
  /\ IF dbLock # NoProc
     THEN /\ ev_ret' = "database is locked"
          /\ UNCHANGED <<dbLock, ev_tx, ev_pc>>
     ELSE /\ dbLock' = p
          /\ ev_tx' = [id |-> NextEventId(job_events, ev_seq), job_id |-> job_id,
                       event_type |-> event_type, created_at |-> clock]
          /\ ev_pc' = [ev_pc EXCEPT ![p] = "inserted"]
          /\ UNCHANGED ev_ret
  /\ UNCHANGED <<job_events, ev_seq, readerVars, notJobEvents>>

\* append_job_event: conn.commit() and the return.
append_job_event_commit(p) ==
  /\ ev_pc[p] = "inserted"
  /\ dbLock = p
  /\ job_events' = job_events \cup {ev_tx}
  /\ ev_seq' = ev_tx.id
  /\ ev_tx' = NoEvent
  /\ dbLock' = NoProc
  /\ ev_pc' = [ev_pc EXCEPT ![p] = "idle"]
  /\ ev_ret' = "ok"
  /\ UNCHANGED <<readerVars, notJobEvents>>

\* GET /v1/events/jobs: the stream opens with the client's last_event_id.
stream_job_events(last_event_id) ==
  /\ r_pc = "stopped"
  /\ r_pc' = "polling"
  /\ r_start' = last_event_id
  /\ r_current' = last_event_id
  /\ r_delivered' = <<>>
  /\ UNCHANGED <<dbLock, job_events, ev_seq, ev_tx, ev_pc, ev_ret, r_k, r_events, r_next,
                 notJobEvents>>

\* event_generator: list_job_events_after(paths, current), then the sleep
\* when nothing came back.
event_generator_poll ==
  /\ r_pc = "polling"
  /\ r_k' = r_current
  /\ r_events' = list_job_events_after(job_events, r_current)
  /\ r_next' = 1
  /\ r_pc' = IF r_events' = <<>> THEN "polling" ELSE "yielding"
  /\ UNCHANGED <<dbLock, job_events, ev_seq, ev_tx, ev_pc, ev_ret, r_start, r_current,
                 r_delivered, notJobEvents>>

\* event_generator: one turn of `for event in events`, then the sleep
\* after the last one.
event_generator_yield ==
  /\ r_pc = "yielding"
  /\ r_current' = CursorAfter(r_events[r_next])
  /\ r_delivered' = Append(r_delivered, r_events[r_next].id)
  /\ r_next' = r_next + 1
  /\ r_pc' = IF r_next = Len(r_events) THEN "polling" ELSE "yielding"
  /\ UNCHANGED <<dbLock, job_events, ev_seq, ev_tx, ev_pc, ev_ret, r_start, r_k, r_events,
                 notJobEvents>>

\* ---------------------------------------------------------- live states
MaxUpserts == 3

VersionIds == {"v1", "v2"}           \* strategy_version_id
LiveStatuses == {"active", "paused", "stopped"}
BadStatusArgs == {"running", "Active", ""}
NoUpsert == [status |-> "", payload |-> <<>>]
NoLiveCall == [strategy_version_id |-> "", strategy_name |-> "", status |-> "",
               payload |-> <<>>, now |-> NULL]

\* runtime["strategy_name"] of a strategy version
StrategyNameOf(id) == IF id = "v1" THEN "X" ELSE "Y"

\* A payload is a Python dict: its items in insertion order.
\* `{**payload, key: value}`: the value replaces the key's value in place,
\* or the item is added at the end.
DictSet(payload, key, value) ==
  IF \E i \in 1..Len(payload) : payload[i][1] = key
    THEN [i \in 1..Len(payload) |->
            IF payload[i][1] = key THEN <<key, value>> ELSE payload[i]]
    ELSE Append(payload, <<key, value>>)

\* json.dumps of a payload, and json.loads of the text.
JsonDumps(payload) == [text |-> payload]
JsonLoads(payload_json) == payload_json.text

\* A plausible slip: `ON CONFLICT(strategy_version_id) DO NOTHING`.
UpsertDoNothing(table, row) ==
  IF \E r \in table : r.strategy_version_id = row.strategy_version_id
    THEN table
    ELSE table \cup {row}

\* `INSERT ... ON CONFLICT(strategy_version_id) DO UPDATE SET strategy_name,
\* status, payload_json, updated_at`: created_at of an existing row stays.
Upsert(table, row) ==
  IF \E r \in table : r.strategy_version_id = row.strategy_version_id
    THEN {IF r.strategy_version_id = row.strategy_version_id
            THEN [r EXCEPT !.strategy_name = row.strategy_name,
                           !.status = row.status,
                           !.payload_json = row.payload_json,
                           !.updated_at = row.updated_at]
            ELSE r : r \in table}
    ELSE table \cup {row}

InitLive ==
  /\ live_states = {}
  /\ ls_tx = {}
  /\ ls_pc = [p \in Procs |-> "idle"]
  /\ ls_call = [p \in Procs |-> NoLiveCall]
  /\ ls_ret = "none"
  /\ ls_last = [id \in VersionIds |-> NoUpsert]
  /\ ls_calls = 0

\* A call that raises: nothing of it is left.
LiveRaise(p, err) ==
  /\ ls_pc' = [ls_pc EXCEPT ![p] = "idle"]
  /\ ls_call' = [ls_call EXCEPT ![p] = NoLiveCall]
  /\ ls_ret' = err
  /\ UNCHANGED <<clock, dbLock, live_states, ls_tx, ls_last, notLive>>

\* A plausible slip: no status check at the head of upsert_live_state.
AnyStatus(status) == TRUE

\* `status in {"active", "paused", "stopped"}`
StatusAllowed(status) == status \in {"active", "paused", "stopped"}

\* upsert_live_state up to `with connect(paths)`: the status check and
\* now = _utc_now().
upsert_live_state_begin(p, strategy_version_id, strategy_name, status, payload) ==
  /\ ls_pc[p] = "idle"
  /\ ls_calls < MaxUpserts
  /\ ls_calls' = ls_calls + 1
  /\ IF ~StatusAllowed(status)
       THEN LiveRaise(p, "bad_status")
       ELSE /\ ls_pc' = [ls_pc EXCEPT ![p] = "begun"]
            /\ ls_call' = [ls_call EXCEPT ![p] =
                 [strategy_version_id |-> strategy_version_id,
                  strategy_name |-> strategy_name, status |-> status,
                  payload |-> payload, now |-> clock]]
            /\ UNCHANGED <<clock, dbLock, live_states, ls_tx, ls_ret, ls_last, notLive>>

\* live_activate from its upsert on: status "active" and a fresh payload.
\* (The snapshot it builds and the live_insights rows it appends before are
\* other tables; of the payload's keys only updated_at, the one that differs
\* between two activations of a version, is kept.)
live_activate(p, strategy_version_id) ==
  upsert_live_state_begin(p, strategy_version_id, StrategyNameOf(strategy_version_id),
                          "active", <<<<"updated_at", clock>>>>)

\* live_pause / live_stop: get_live_state reads the committed row, or raises
\* when there is none; the upsert carries the row's name and its payload with
\* paused_at / stopped_at set to now.
live_lifecycle(p, strategy_version_id, status, stamp) ==
  /\ ls_pc[p] = "idle"
  /\ LET rows == {r \in live_states : r.strategy_version_id = strategy_version_id} IN
     IF rows = {}
       THEN LiveRaise(p, "not_found") /\ UNCHANGED ls_calls
       ELSE LET row == CHOOSE r \in rows : TRUE IN
            upsert_live_state_begin(p, strategy_version_id, row.strategy_name, status,
                                    DictSet(JsonLoads(row.payload_json), stamp, clock))

live_pause(p, strategy_version_id) ==
  live_lifecycle(p, strategy_version_id, "paused", "paused_at")

live_stop(p, strategy_version_id) ==
  live_lifecycle(p, strategy_version_id, "stopped", "stopped_at")

\* conn.execute(INSERT ... ON CONFLICT ...): the statement opens the
\* transaction and takes the write lock.
upsert_live_state_execute(p) ==
  /\ ls_pc[p] = "begun"
  /\ dbLock = NoProc
  /\ LET c == ls_call[p] IN
     ls_tx' = Upsert(live_states,
                [strategy_version_id |-> c.strategy_version_id,
                 strategy_name |-> c.strategy_name,
                 status |-> c.status,
                 payload_json |-> JsonDumps(c.payload),
                 created_at |-> c.now,
                 updated_at |-> c.now])
  /\ dbLock' = p
  /\ ls_pc' = [ls_pc EXCEPT ![p] = "executed"]
  /\ UNCHANGED <<clock, live_states, ls_call, ls_ret, ls_last, ls_calls, notLive>>

\* The statement finds the database locked until the busy timeout:
\* sqlite3.OperationalError, nothing written.
upsert_live_state_busy(p) ==
  /\ ls_pc[p] = "begun"
  /\ dbLock \notin {NoProc, p}
  /\ LiveRaise(p, "locked")
  /\ UNCHANGED ls_calls

\* conn.commit() and the return.
upsert_live_state_commit(p) ==
  /\ ls_pc[p] = "executed"
  /\ dbLock = p
  /\ live_states' = ls_tx
  /\ dbLock' = NoProc
  /\ ls_pc' = [ls_pc EXCEPT ![p] = "idle"]
  /\ ls_ret' = "ok"
  /\ ls_last' = [ls_last EXCEPT ![ls_call[p].strategy_version_id] =
                   [status |-> ls_call[p].status, payload |-> ls_call[p].payload]]
  /\ ls_call' = [ls_call EXCEPT ![p] = NoLiveCall]
  /\ UNCHANGED <<clock, ls_tx, ls_calls, notLive>>

\* Wall-clock time passes.
LiveTick ==
  /\ clock < MaxClock
  /\ clock' = clock + 1
  /\ UNCHANGED <<dbLock, liveVars, notLive>>

\* ------------------------------------------- redaction, audit events, log
MaxAuditRows == 1
MaxLogLines == 1

\* Strings are sequences of characters.
Upper == <<"A", "B", "C", "D", "E", "F", "G", "H", "I", "J", "K", "L", "M",
           "N", "O", "P", "Q", "R", "S", "T", "U", "V", "W", "X", "Y", "Z">>
Lower == <<"a", "b", "c", "d", "e", "f", "g", "h", "i", "j", "k", "l", "m",
           "n", "o", "p", "q", "r", "s", "t", "u", "v", "w", "x", "y", "z">>

\* str.lower()
LowerChar(c) ==
  IF \E i \in 1..Len(Upper) : Upper[i] = c
    THEN Lower[CHOOSE i \in 1..Len(Upper) : Upper[i] = c]
    ELSE c
LowerStr(str) == [i \in 1..Len(str) |-> LowerChar(str[i])]

\* `secret in k`: secret is a substring of k
Contains(k, secret) ==
  \E i \in 0..(Len(k) - Len(secret)) :
    \A j \in 1..Len(secret) : k[i + j] = secret[j]

\* _SECRET_KEYS
SECRET_KEYS == {
  <<"a", "c", "c", "e", "s", "s", "_", "t", "o", "k", "e", "n">>,
  <<"r", "e", "f", "r", "e", "s", "h", "_", "t", "o", "k", "e", "n">>,
  <<"t", "o", "k", "e", "n">>,
  <<"a", "u", "t", "h", "o", "r", "i", "z", "a", "t", "i", "o", "n">>,
  <<"c", "o", "o", "k", "i", "e">>,
  <<"s", "e", "s", "s", "i", "o", "n", "i", "d">>,
  <<"a", "p", "i", "_", "k", "e", "y">>,
  <<"a", "p", "i", "_", "s", "e", "c", "r", "e", "t">>,
  <<"s", "e", "c", "r", "e", "t">>,
  <<"p", "a", "s", "s", "w", "o", "r", "d">>}

\* `any(secret in k for secret in _SECRET_KEYS)` with k = str(key).lower()
IsSecretKey(key) == \E secret \in SECRET_KEYS : Contains(LowerStr(key), secret)

\* _mask
Mask(value) ==
  IF Len(value) = 0 THEN <<>>
  ELSE IF Len(value) <= 8 THEN [i \in 1..Len(value) |-> "*"]
  ELSE SubSeq(value, 1, 4) \o <<".", ".", ".">> \o SubSeq(value, Len(value) - 3, Len(value))

\* Python values: a str, a dict (its items in order, each <<key, value>>), a
\* list or a tuple (its elements in order).
StrV(chars) == [kind |-> "str", chars |-> chars, items |-> <<>>]
DictV(items) == [kind |-> "dict", chars |-> <<>>, items |-> items]
ListV(items) == [kind |-> "list", chars |-> <<>>, items |-> items]
TupleV(items) == [kind |-> "tuple", chars |-> <<>>, items |-> items]

KeyToken == <<"t", "o", "k", "e", "n">>
KeyApiKey == <<"A", "P", "I", "_", "K", "e", "y">>
KeyNote == <<"n", "o", "t", "e">>
KeyTraceId == <<"t", "r", "a", "c", "e", "_", "i", "d">>
KeyEventType == <<"e", "v", "e", "n", "t", "_", "t", "y", "p", "e">>
KeyArgs == {KeyToken, KeyApiKey, KeyNote}

ShortValue == <<"p", "w">>
LongValue == <<"s", "3", "c", "r", "3", "t", "-", "v", "a", "l">>
TraceId == <<"n", "o", "-", "t", "r", "a", "c", "e">>    \* get_trace_id()
EventTypeArgs == {<<"e", "v">>}

\* The values one more level of nesting adds to a set of values.
Nest(values) ==
  values \cup {DictV(<<<<k, v>>>>) : k \in KeyArgs, v \in values}
         \cup {ListV(<<v>>) : v \in values}
         \cup {TupleV(<<v>>) : v \in values}

LeafArgs == {StrV(<<>>), StrV(ShortValue), StrV(LongValue)}
ValueArgs == Nest(Nest(LeafArgs))
AuditPayloadArgs == {DictV(<<<<k, v>>>>) : k \in KeyArgs, v \in ValueArgs}

\* repr(value), and str(value): of a str its characters, of a container
\* its repr.  (The characters used here need no escaping.)
RECURSIVE Repr(_)
RECURSIVE ReprJoin(_, _)
ReprJoin(items, isDict) ==
  IF Len(items) = 0 THEN <<>>
  ELSE LET first == IF isDict
                      THEN <<"'">> \o items[1][1] \o <<"'", ":", " ">> \o Repr(items[1][2])
                      ELSE Repr(items[1]) IN
       IF Len(items) = 1 THEN first
       ELSE first \o <<",", " ">> \o ReprJoin(Tail(items), isDict)
Repr(value) ==
  IF value.kind = "str" THEN <<"'">> \o value.chars \o <<"'">>
  ELSE IF value.kind = "dict" THEN <<"{">> \o ReprJoin(value.items, TRUE) \o <<"}">>
  ELSE IF value.kind = "list" THEN <<"[">> \o ReprJoin(value.items, FALSE) \o <<"]">>
  ELSE <<"(">> \o ReprJoin(value.items, FALSE) \o
       (IF Len(value.items) = 1 THEN <<",", ")">> ELSE <<")">>)
Str(value) == IF value.kind = "str" THEN value.chars ELSE Repr(value)

\* redact_payload: a dict is walked item by item, a list element by element,
\* anything else (a tuple too) is returned as it is.
RECURSIVE redact_payload(_)
RECURSIVE RedactItems(_, _)
RedactItems(items, isDict) ==
  IF Len(items) = 0 THEN <<>>
  ELSE LET first ==
             IF isDict
               THEN LET key == items[1][1]
                        value == items[1][2] IN
                    IF IsSecretKey(key)
                      THEN <<key, StrV(Mask(Str(value)))>>
                      ELSE <<key, redact_payload(value)>>
               ELSE redact_payload(items[1]) IN
       <<first>> \o RedactItems(Tail(items), isDict)
redact_payload(payload) ==
  IF payload.kind = "dict" THEN DictV(RedactItems(payload.items, TRUE))
  ELSE IF payload.kind = "list" THEN ListV(RedactItems(payload.items, FALSE))
  ELSE payload

\* `{**payload, key: value}` and dict.setdefault(key, value)
RECURSIVE ReplaceItem(_, _, _)
ReplaceItem(items, key, value) ==
  IF Len(items) = 0 THEN <<>>
  ELSE <<IF items[1][1] = key THEN <<key, value>> ELSE items[1]>>
       \o ReplaceItem(Tail(items), key, value)
DictWith(payload, key, value) ==
  IF \E i \in 1..Len(payload.items) : payload.items[i][1] = key
    THEN DictV(ReplaceItem(payload.items, key, value))
    ELSE DictV(Append(payload.items, <<key, value>>))
SetDefault(payload, key, value) ==
  IF \E i \in 1..Len(payload.items) : payload.items[i][1] = key
    THEN payload
    ELSE DictV(Append(payload.items, <<key, value>>))

\* json.dumps: a dict is written as an object, a list and a tuple both as an
\* array, a str as a string.
RECURSIVE JsonText(_)
RECURSIVE JsonItems(_, _)
JsonItems(items, isDict) ==
  IF Len(items) = 0 THEN <<>>
  ELSE <<IF isDict THEN <<items[1][1], JsonText(items[1][2])>> ELSE JsonText(items[1])>>
       \o JsonItems(Tail(items), isDict)
JsonText(value) ==
  IF value.kind = "dict"
    THEN [json |-> "object", chars |-> <<>>, items |-> JsonItems(value.items, TRUE)]
  ELSE IF value.kind \in {"list", "tuple"}
    THEN [json |-> "array", chars |-> <<>>, items |-> JsonItems(value.items, FALSE)]
  ELSE [json |-> "string", chars |-> value.chars, items |-> <<>>]

InitAudit ==
  /\ audit_events = <<>>
  /\ structured_log = <<>>

\* sqlite_store.append_audit_event: redaction, the trace id, the INSERT and
\* its commit.
append_audit_event(event_type, payload) ==
  /\ dbLock = NoProc
  /\ Len(audit_events) < MaxAuditRows
  /\ LET merged_payload == SetDefault(redact_payload(payload), KeyTraceId, StrV(TraceId)) IN
     audit_events' = Append(audit_events,
       [event_type |-> event_type, payload_json |-> JsonText(merged_payload),
        created_at |-> clock])
  /\ UNCHANGED <<clock, dbLock, structured_log, notAudit>>

\* app._append_audit_event: it redacts, adds the trace id and calls the store.
app_append_audit_event(event_type, payload) ==
  append_audit_event(event_type, DictWith(redact_payload(payload), KeyTraceId, StrV(TraceId)))

\* app._write_structured_log: one redacted JSON line appended to the log.
\* (`{"event_type": ..., "trace_id": ..., **payload}`: no payload here has
\* one of these two keys, so the payload's items follow them.)
write_structured_log(event_type, payload) ==
  /\ Len(structured_log) < MaxLogLines
  /\ LET row == redact_payload(
                  DictV(<<<<KeyEventType, StrV(event_type)>>,
                          <<KeyTraceId, StrV(TraceId)>>>> \o payload.items)) IN
     structured_log' = Append(structured_log, JsonText(row))
  /\ UNCHANGED <<clock, dbLock, audit_events, notAudit>>

\* -------------------------------------------------------- tuning engine
NumParams == 3                 \* parameter sets the search space can produce
MaxTrials == 2                 \* largest max_trials

ParamSets == 1..NumParams
MetricValues == {1, 2}               \* values of the objective metric
MaxLayersArgs == {1, 2}              \* max_layers
PerLayerArgs == {1, 2}               \* max_trials_per_layer when given
MetricSharpe == <<"s", "h", "a", "r", "p", "e">>
MetricDrawdown == <<"m", "a", "x", "_", "d", "r", "a", "w", "d", "o", "w", "n">>
MetricArgs == {MetricSharpe, MetricDrawdown}
WeightsArgs == {"none", "given"}     \* objective["weights"]: absent, or {metric: 1.0}
NoPerLayer == 0                      \* max_trials_per_layer = None
NoCandidate == [params |-> 0, value |-> 0, score |-> 0, layer |-> -1]
NoTuneArgs == [max_trials |-> 0, max_layers |-> 0, max_trials_per_layer |-> NoPerLayer,
               metric |-> <<>>, maximize |-> TRUE, weights |-> "none"]
TuneArgs ==
  [max_trials : 0..MaxTrials, max_layers : MaxLayersArgs,
   max_trials_per_layer : {NoPerLayer} \cup PerLayerArgs,
   metric : MetricArgs, maximize : BOOLEAN, weights : WeightsArgs]

\* _metric_direction
MetricDirection(metric_name) ==
  LET lowered == LowerStr(metric_name) IN
  IF Contains(lowered, <<"d", "r", "a", "w", "d", "o", "w", "n">>) THEN -1
  ELSE IF \/ Contains(lowered, <<"s", "t", "d", "e", "v">>)
          \/ Contains(lowered, <<"v", "o", "l", "a", "t", "i", "l", "i", "t", "y">>) THEN -1
  ELSE 1

\* _parse_objective: the weight of the objective metric.  Without weights it
\* is 1.0 if maximize else -1.0; given weights are taken as they are.
ObjectiveWeight(args) ==
  IF args.weights = "none" THEN (IF args.maximize THEN 1 ELSE -1) ELSE 1

\* _score_candidate on metrics = {metric: value}: objective.weights is never
\* empty, so the score is the weighted sum, here of one term.
ScoreCandidate(value, args) == ObjectiveWeight(args) * MetricDirection(args.metric) * value

\* The grids _generate_param_grid can return: any sequence of parameter
\* sets.  A set can come twice: the product is taken over values that are
\* coerced after they were de-duplicated (an int_range 1..2 probes 1, 1, 2).
GridLens == {0, 1, 2, 3}
Grids == UNION {[1..n -> ParamSets] : n \in GridLens}

\* rng.shuffle: the orders a list can be left in.
Shuffles(list) ==
  {[i \in 1..Len(list) |-> list[p[i]]] :
     p \in {q \in [1..Len(list) -> 1..Len(list)] :
              \A i, j \in 1..Len(list) : i # j => q[i] # q[j]}}

\* `candidates[:max_trials_per_layer]` when max_trials_per_layer is not None
Truncate(candidates, max_trials_per_layer) ==
  IF max_trials_per_layer = NoPerLayer \/ Len(candidates) <= max_trials_per_layer
    THEN candidates
    ELSE SubSeq(candidates, 1, max_trials_per_layer)

\* The selection loop without its `if key in evaluated_param_sets: continue`.
RECURSIVE SelectNoSkip(_, _, _, _)
SelectNoSkip(candidates, seen, selected, remaining_trials) ==
  IF Len(candidates) = 0 THEN selected
  ELSE IF Len(selected) + 1 >= remaining_trials
    THEN Append(selected, Head(candidates))
  ELSE SelectNoSkip(Tail(candidates), seen, Append(selected, Head(candidates)),
                    remaining_trials)

\* The selection loop: candidates not evaluated before, in order, until
\* len(selected) >= remaining_trials.
RECURSIVE Select(_, _, _, _)
Select(candidates, seen, selected, remaining_trials) ==
  IF Len(candidates) = 0 THEN selected
  ELSE IF Head(candidates) \in seen
    THEN Select(Tail(candidates), seen, selected, remaining_trials)
  ELSE IF Len(selected) + 1 >= remaining_trials
    THEN Append(selected, Head(candidates))
  ELSE Select(Tail(candidates), seen \cup {Head(candidates)},
              Append(selected, Head(candidates)), remaining_trials)

\* `layer_results.sort(key=score, reverse=True)` then `top[0]`: the first of
\* the rows with the highest score (the sort is stable).
BestForLayer(layer_results) ==
  layer_results[CHOOSE i \in 1..Len(layer_results) :
                  /\ \A j \in 1..Len(layer_results) :
                       layer_results[j].score <= layer_results[i].score
                  /\ \A j \in 1..(i - 1) : layer_results[j].score < layer_results[i].score]

\* A plausible slip: the best of the last layer always taken.
ReplacesBestAlways(best_for_layer, best_candidate) == TRUE

\* `best_candidate is None or best_for_layer["score"] > best_candidate["score"]`
ReplacesBest(best_for_layer, best_candidate) ==
  best_candidate = NoCandidate \/ best_for_layer.score > best_candidate.score

InitTune ==
  /\ tn_pc = "idle"
  /\ tn_args = NoTuneArgs
  /\ tn_layer = 0
  /\ tn_remaining = 0
  /\ tn_seen = {}
  /\ tn_selected = <<>>
  /\ tn_index = 0
  /\ tn_layer_results = <<>>
  /\ tn_evaluated = <<>>
  /\ tn_best = NoCandidate
  /\ tn_runs = 0
  /\ tn_grid = <<>>
  /\ tn_executed = <<>>
  /\ tn_ret = "none"

\* tune_strategy up to its layer loop: the argument checks and the locals.
tune_strategy_begin(args) ==
  /\ tn_pc = "idle"
  /\ tn_args' = args
  /\ IF args.max_trials <= 0
       THEN /\ tn_pc' = "done"
            /\ tn_ret' = "invalid"
            /\ UNCHANGED tn_remaining
       ELSE /\ tn_pc' = "layer"
            /\ tn_remaining' = args.max_trials
            /\ UNCHANGED tn_ret
  /\ UNCHANGED <<tn_layer, tn_seen, tn_selected, tn_index, tn_layer_results,
                 tn_evaluated, tn_best, tn_runs, tn_grid, tn_executed, notTune>>

\* The code after the loop: no best candidate raises, else the result.
TuneFinish(best_candidate) ==
  /\ tn_pc' = "done"
  /\ tn_ret' = IF best_candidate = NoCandidate THEN "no_candidates" ELSE "completed"

\* The head of one layer: the loop's exits, the grid, the cut to
\* max_trials_per_layer, the shuffle and the selection.
tune_layer_begin(grid) ==
  /\ tn_pc = "layer"
  /\ IF tn_layer >= tn_args.max_layers \/ tn_remaining <= 0 \/ Len(grid) = 0
       THEN /\ TuneFinish(tn_best)
            /\ UNCHANGED <<tn_seen, tn_selected, tn_index, tn_layer_results, tn_grid>>
       ELSE \E shuffled \in Shuffles(Truncate(grid, tn_args.max_trials_per_layer)) :
            LET selected == Select(shuffled, tn_seen, <<>>, tn_remaining) IN
               IF Len(selected) = 0
                 THEN /\ TuneFinish(tn_best)
                      /\ UNCHANGED <<tn_seen, tn_selected, tn_index, tn_layer_results, tn_grid>>
                 ELSE /\ tn_grid' = grid
                      /\ tn_seen' = tn_seen \cup {selected[i] : i \in 1..Len(selected)}
                      /\ tn_selected' = selected
                      /\ tn_index' = 1
                      /\ tn_layer_results' = <<>>
                      /\ tn_pc' = "run"
                      /\ UNCHANGED tn_ret
  /\ UNCHANGED <<tn_args, tn_layer, tn_remaining, tn_evaluated, tn_best, tn_runs, tn_executed,
                 notTune>>

\* One turn of the candidate loop: _run_candidate raises (the candidate is
\* skipped and remaining_trials stays), or returns metrics and a score.
tune_run_candidate(failed, value) ==
  /\ tn_pc = "run"
  /\ tn_index <= Len(tn_selected)
  /\ tn_runs' = tn_runs + 1
  /\ tn_executed' = Append(tn_executed, tn_selected[tn_index])
  /\ tn_grid' = <<>>
  /\ tn_index' = tn_index + 1
  /\ IF failed
       THEN UNCHANGED <<tn_evaluated, tn_layer_results, tn_remaining>>
       ELSE LET candidate == [params |-> tn_selected[tn_index], value |-> value,
                              score |-> ScoreCandidate(value, tn_args),
                              layer |-> tn_layer] IN
            /\ tn_evaluated' = Append(tn_evaluated, candidate)
            /\ tn_layer_results' = Append(tn_layer_results, candidate)
            /\ tn_remaining' = tn_remaining - 1
  /\ UNCHANGED <<tn_pc, tn_args, tn_layer, tn_seen, tn_selected, tn_best, tn_ret, notTune>>

\* The end of one layer: no result ends the loop; else the layer's best
\* replaces best_candidate if its score is higher.
tune_layer_end ==
  /\ tn_pc = "run"
  /\ tn_index > Len(tn_selected)
  /\ IF Len(tn_layer_results) = 0
       THEN /\ TuneFinish(tn_best)
            /\ UNCHANGED <<tn_best, tn_layer>>
       ELSE /\ tn_best' = IF ReplacesBest(BestForLayer(tn_layer_results), tn_best)
                            THEN BestForLayer(tn_layer_results)
                            ELSE tn_best
            /\ tn_layer' = tn_layer + 1
            /\ tn_pc' = "layer"
            /\ UNCHANGED tn_ret
  /\ UNCHANGED <<tn_args, tn_remaining, tn_seen, tn_selected, tn_index, tn_layer_results,
                 tn_evaluated, tn_runs, tn_grid, tn_executed, notTune>>

\* The keyword arguments _run_candidate calls run_code_fn with, and the
\* parameters of run_code_strategy_backtest, the default run_code_fn.
RunCandidateKeywords ==
  {"paths", "strategy_name", "source_code", "universe", "start_date", "end_date",
   "initial_capital", "timeout_seconds", "memory_mb", "cpu_seconds", "context"}
BacktestParameters ==
  {"paths", "strategy_name", "source_code", "universe", "start_date", "end_date",
   "initial_capital", "timeout_seconds", "memory_mb", "cpu_seconds"}
BacktestRequired ==
  {"paths", "strategy_name", "source_code", "universe", "start_date", "end_date",
   "initial_capital"}

\* Python's binding of a call by keywords to a function without **kwargs:
\* TypeError for a keyword that is no parameter or a required one not given.
CallRaisesTypeError(keywords, parameters, required) ==
  ~(keywords \subseteq parameters) \/ ~(required \subseteq keywords)

\* One turn of the candidate loop when run_code_fn is None: the function is
\* run_code_strategy_backtest and the strategy itself backtests successfully.
tune_run_candidate_default(value) ==
  tune_run_candidate(
    CallRaisesTypeError(RunCandidateKeywords, BacktestParameters, BacktestRequired), value)

\* ------------------------------------------ market data and world state
\* DuckDB holds market_ohlcv and the three event tables; SQLite holds
\* world_manifests and kite_candle_cache.  Timestamps are counted in half
\* days, so two timestamps fall on each calendar date.
MaxImports == 2     \* ingest calls (file imports and candle fetches) of a run

Symbols == {"ABC", "XYZ"}
\* The symbols callers name, in ascending VARCHAR order.
SymbolOrder == <<"ABC", "MISSING", "XYZ">>
SymbolRank(symbol) == CHOOSE i \in 1..Len(SymbolOrder) : SymbolOrder[i] = symbol
Dates == {0, 1}
DateRanges == {<<0, 0>>, <<0, 1>>, <<1, 1>>}
ManifestCounts == {0}    \* the sizes of world_manifests at which a manifest is built
Universes == {<<>>, <<"ABC">>, <<"ABC", "XYZ">>, <<"XYZ", "MISSING">>}
Policies == {"none", "split_adjusted", "total_return"}
PolicyArgs == {"none", " Total_Return", "adjusted"}
RepublishedArgs == {{}, {"ABC"}}   \* the symbols whose published_at was moved

\* The files handed to import_ohlcv_file: a.csv and b.csv both carry a bar
\* of ABC at timestamp 0, e.csv has a header only, x.txt is no CSV.
OhlcvFiles ==
  { [path |-> "a.csv", suffix |-> ".csv", sha256 |-> "hA",
     rows |-> << [timestamp |-> 0, symbol |-> "ABC", close |-> 10],
                 [timestamp |-> 2, symbol |-> "XYZ", close |-> 20] >>],
    [path |-> "b.csv", suffix |-> ".csv", sha256 |-> "hB",
     rows |-> << [timestamp |-> 0, symbol |-> "ABC", close |-> 11] >>],
    [path |-> "e.csv", suffix |-> ".csv", sha256 |-> "hE", rows |-> <<>>],
    [path |-> "x.txt", suffix |-> ".txt", sha256 |-> "hX", rows |-> <<>>] }
\* The files handed to the three event importers: one event of ABC, dated or not.
EventFiles ==
  { [path |-> "f.csv", sha256 |-> "hF", rows |-> << [symbol |-> "ABC", at |-> 0] >>],
    [path |-> "g.csv", sha256 |-> "hG", rows |-> << [symbol |-> "ABC", at |-> NULL] >>] }

\* What fetch_historical_candles may return for a request.
KiteCandles ==
  << <<>>,
     << [timestamp |-> 0, close |-> 12] >>,
     << [timestamp |-> 0, close |-> 12], [timestamp |-> 1, close |-> 13] >> >>
UpstreamReplies ==
  {[error |-> TRUE, rows |-> <<>>]} \cup
  {[error |-> FALSE, rows |-> KiteCandles[i]] : i \in 1..Len(KiteCandles)}
KiteEnvs == {"ok", "no_config", "no_session"}
KiteRequests ==
  [symbol : Symbols, instrument_token : {"T1"}, interval : {"day"}, from_ts : {0},
   to_ts : {2}, persist : BOOLEAN, use_cache : BOOLEAN, force_refresh : BOOLEAN]

\* The requests that go to the provider and store what it returns.
UncachedRequests == {r \in KiteRequests : r.persist /\ ~r.use_cache /\ ~r.force_refresh}

\* The replies that carry candles.
CandleReplies == {reply \in UpstreamReplies : reply.rows # <<>>}

NoMarketRet ==
  [op |-> "none", outcome |-> "none", detail |-> <<>>, rows |-> 0, persisted_rows |-> 0,
   dataset_hash |-> "", cache_hit |-> FALSE, manifest_id |-> 0]
MarketRet(op, outcome) == [NoMarketRet EXCEPT !.op = op, !.outcome = outcome]

\* `path.suffix.lower() not in {".csv", ".parquet"}`
SupportedInput(file) == file.suffix \in {".csv", ".parquet"}

\* CAST(timestamp AS DATE)
DateOf(timestamp) == timestamp \div 2

\* str(item) of a fetched column value
PyStr(item) == IF item = NULL THEN "None" ELSE ToString(item)

SeqRange(s) == {s[i] : i \in 1..Len(s)}

\* The row the INSERT ... SELECT of import_ohlcv_file writes for a file row:
\* timestamp is cast into both timestamp and published_at.
ImportedRow(file, row, now) ==
  [timestamp |-> row.timestamp, published_at |-> row.timestamp, symbol |-> row.symbol,
   close |-> row.close, source_file |-> file.path, dataset_hash |-> file.sha256,
   ingested_at |-> now]

\* json.dumps + sha256 of the fetched candles: one digest per candle list.
JsonHash(rows) ==
  LET i == CHOOSE k \in 1..Len(KiteCandles) : KiteCandles[k] = rows IN
  <<"hK0", "hK1", "hK2">>[i]

\* The row kite_candles_fetch inserts for a candle.
KiteRow(request, candle, dataset_hash, now) ==
  [timestamp |-> candle.timestamp, published_at |-> candle.timestamp,
   symbol |-> request.symbol, close |-> candle.close, source_file |-> "kite_api",
   dataset_hash |-> dataset_hash, ingested_at |-> now]

\* _kite_candle_cache_key: the digest of the canonical JSON of five fields
\* of the request, one digest per value of the five.
KiteCandleCacheKey(request) ==
  [symbol |-> request.symbol, instrument_token |-> request.instrument_token,
   interval |-> request.interval, from_ts |-> request.from_ts, to_ts |-> request.to_ts]

\* A plausible slip: a lookup that finds no entry.
GetKiteCandleCacheMiss(table, cache_key) == {}

\* get_kite_candle_cache: the rows with that key (at most one: PRIMARY KEY).
GetKiteCandleCache(table, cache_key) == {r \in table : r.cache_key = cache_key}

\* upsert_kite_candle_cache: INSERT ... ON CONFLICT(cache_key) DO UPDATE.
UpsertKiteCandleCache(table, cache_key, row_count, dataset_hash, now) ==
  {r \in table : r.cache_key # cache_key} \cup
  {[cache_key |-> cache_key, row_count |-> row_count, dataset_hash |-> dataset_hash,
    created_at |-> now]}

InitMarket ==
  /\ market_ohlcv = <<>>
  /\ company_fundamentals = <<>>
  /\ corporate_actions = <<>>
  /\ analyst_ratings = <<>>
  /\ world_manifests = {}
  /\ kite_candle_cache = {}
  /\ md_audit = <<>>
  /\ md_ops = 0
  /\ upstream_calls = 0
  /\ md_call = [op |-> "none", args |-> <<>>]
  /\ md_ret = NoMarketRet

\* import_ohlcv_file: the file's rows are appended to market_ohlcv, whatever
\* the table holds; a file that adds no row raises after the INSERT.
import_ohlcv_file(file) ==
  /\ md_ops < MaxImports
  /\ md_ops' = md_ops + 1
  /\ md_call' = [op |-> "import_ohlcv_file", args |-> <<file>>]
  /\ IF ~SupportedInput(file)
       THEN /\ md_ret' = MarketRet("import_ohlcv_file", "unsupported_input")
            /\ UNCHANGED <<market_ohlcv, md_audit>>
       ELSE LET inserted == [i \in 1..Len(file.rows) |-> ImportedRow(file, file.rows[i], clock)]
                rows_inserted == Len(market_ohlcv \o inserted) - Len(market_ohlcv) IN
            /\ market_ohlcv' = market_ohlcv \o inserted
            /\ IF rows_inserted <= 0
                 THEN /\ md_ret' = MarketRet("import_ohlcv_file", "no_rows_inserted")
                      /\ UNCHANGED md_audit
                 ELSE /\ md_audit' = Append(md_audit, "data.import")
                      /\ md_ret' = [MarketRet("import_ohlcv_file", "ok") EXCEPT
                                      !.rows = rows_inserted, !.dataset_hash = file.sha256]
  /\ UNCHANGED <<company_fundamentals, corporate_actions, analyst_ratings, world_manifests,
                 kite_candle_cache, upstream_calls, notMarket>>

\* _ensure_required_timestamp_values: no row of the file lacks its event time.
TimestampValuesPresent(file) == \A i \in 1..Len(file.rows) : file.rows[i].at # NULL

\* What the three event importers share: the timestamp check, the INSERT,
\* the count delta, the audit event.
ImportEvents(op, event_type, table, file) ==
  /\ md_ops < MaxImports
  /\ md_ops' = md_ops + 1
  /\ md_call' = [op |-> op, args |-> <<file>>]
  /\ IF ~TimestampValuesPresent(file)
       THEN /\ md_ret' = MarketRet(op, "timestamp_required")
            /\ table' = table
            /\ UNCHANGED md_audit
       ELSE /\ table' = table \o file.rows
            /\ md_audit' = Append(md_audit, event_type)
            /\ md_ret' = [MarketRet(op, "ok") EXCEPT !.rows = Len(file.rows),
                                                     !.dataset_hash = file.sha256]
  /\ UNCHANGED <<market_ohlcv, world_manifests, kite_candle_cache, upstream_calls, notMarket>>

import_fundamentals_file(file) ==
  /\ ImportEvents("import_fundamentals_file", "data.import.fundamentals",
                  company_fundamentals, file)
  /\ UNCHANGED <<corporate_actions, analyst_ratings>>

import_corporate_actions_file(file) ==
  /\ ImportEvents("import_corporate_actions_file", "data.import.corporate_actions",
                  corporate_actions, file)
  /\ UNCHANGED <<company_fundamentals, analyst_ratings>>

import_ratings_file(file) ==
  /\ ImportEvents("import_ratings_file", "data.import.ratings", analyst_ratings, file)
  /\ UNCHANGED <<company_fundamentals, corporate_actions>>

\* kite_candles_fetch: the cache lookup, then the rate limiter, the
\* configuration, the session, the upstream call, the row by row INSERT, the
\* cache upsert and the audit event.  env and reply are what the process
\* environment and the provider answer to this call.
kite_candles_fetch(request, env, reply) ==
  LET cache_key == KiteCandleCacheKey(request)
      cached == IF request.use_cache /\ ~request.force_refresh
                  THEN GetKiteCandleCache(kite_candle_cache, cache_key) ELSE {}
      cfg == rl_env["kite"]
      timestamps == InWindow(rl_state["kite"], mono, cfg.window_seconds)
      dataset_hash == JsonHash(reply.rows)
      inserted == [i \in 1..Len(reply.rows) |->
                     KiteRow(request, reply.rows[i], dataset_hash, clock)]
      Fail(outcome) ==
        /\ md_ret' = MarketRet("kite_candles_fetch", outcome)
        /\ UNCHANGED <<market_ohlcv, kite_candle_cache, md_audit>> IN
  /\ md_ops < MaxImports
  /\ md_ops' = md_ops + 1
  /\ md_call' = [op |-> "kite_candles_fetch", args |-> <<request>>]
  /\ IF cached # {}
       THEN \E row \in cached :
              /\ md_audit' = Append(md_audit, "kite.candles.fetch.cache_hit")
              /\ md_ret' = [MarketRet("kite_candles_fetch", "ok") EXCEPT
                              !.rows = row.row_count, !.dataset_hash = row.dataset_hash,
                              !.cache_hit = TRUE]
              /\ UNCHANGED <<market_ohlcv, kite_candle_cache, upstream_calls, rl_state, rl_last,
                             rl_admitted>>
       ELSE IF Len(timestamps) >= cfg.max_requests
       THEN /\ Fail("provider_rate_limited")
            /\ rl_last' = [provider |-> "kite", outcome |-> "limited", now |-> mono,
                           window_seconds |-> cfg.window_seconds,
                           retry_after_seconds |->
                             RetryAfter(timestamps, mono, cfg.window_seconds),
                           message |-> FormatRetryAfter(
                             RetryAfter(timestamps, mono, cfg.window_seconds))]
            /\ UNCHANGED <<upstream_calls, rl_state, rl_admitted>>
       ELSE /\ rl_state' = [rl_state EXCEPT !["kite"] = Append(timestamps, mono)]
            /\ rl_admitted' = Admitted("kite", cfg.window_seconds)
            /\ rl_last' = [provider |-> "kite", outcome |-> "admitted", now |-> mono,
                           window_seconds |-> cfg.window_seconds,
                           retry_after_seconds |-> 0, message |-> 0]
            /\ IF env = "no_config"
                 THEN Fail("invalid_kite_config") /\ UNCHANGED upstream_calls
               ELSE IF env = "no_session"
                 THEN Fail("reauth_required") /\ UNCHANGED upstream_calls
               ELSE /\ upstream_calls' = upstream_calls + 1
                    /\ IF reply.error
                         THEN Fail("kite_upstream_error")
                         ELSE /\ IF request.persist
                                   THEN /\ market_ohlcv' = market_ohlcv \o inserted
                                        /\ kite_candle_cache' =
                                             UpsertKiteCandleCache(kite_candle_cache, cache_key,
                                                                   Len(reply.rows), dataset_hash, clock)
                                   ELSE UNCHANGED <<market_ohlcv, kite_candle_cache>>
                              /\ md_audit' = Append(md_audit, "kite.candles.fetch")
                              /\ md_ret' = [MarketRet("kite_candles_fetch", "ok") EXCEPT
                                              !.rows = Len(reply.rows),
                                              !.persisted_rows =
                                                 IF request.persist THEN Len(reply.rows) ELSE 0,
                                              !.dataset_hash = dataset_hash]
  /\ UNCHANGED <<company_fundamentals, corporate_actions, analyst_ratings, world_manifests,
                 mono, rl_env, rl_pc, rl_call, notMarketRl>>

\* adjustment_policy.strip().lower()
StripLower(adjustment_policy) ==
  IF adjustment_policy = " Total_Return" THEN "total_return" ELSE adjustment_policy

\* The positions of the market_ohlcv rows the WHERE clause selects:
\* symbol IN (universe) AND CAST(timestamp AS DATE) BETWEEN start AND end.
SelectOhlcv(table, universe, start_date, end_date) ==
  {i \in 1..Len(table) : /\ table[i].symbol \in SeqRange(universe)
                         /\ DateOf(table[i].timestamp) >= start_date
                         /\ DateOf(table[i].timestamp) <= end_date}

\* ORDER BY symbol, timestamp compares these two columns and no other.
OrderedBefore(a, b) ==
  \/ SymbolRank(a.symbol) < SymbolRank(b.symbol)
  \/ a.symbol = b.symbol /\ a.timestamp <= b.timestamp

\* The results fetchall() may give for `ORDER BY symbol, timestamp`: every
\* arrangement of the selected rows that is ascending in (symbol, timestamp);
\* SQL leaves the order of rows equal in both columns open.
RECURSIVE OrderBySymbolTimestamp(_, _)
OrderBySymbolTimestamp(table, selected) ==
  IF selected = {} THEN {<<>>}
  ELSE UNION {{<<table[i]>> \o rest : rest \in OrderBySymbolTimestamp(table, selected \ {i})} :
              i \in {j \in selected : \A k \in selected : OrderedBefore(table[j], table[k])}}

\* `"|".join(str(item) for item in row)` over the selected columns (the five
\* price columns are carried as close).
Serialized(row) ==
  <<row.symbol, "|", PyStr(row.timestamp), "|", PyStr(row.published_at), "|",
    PyStr(row.close), "|", row.dataset_hash>>

\* The bytes fed to the hasher, update by update; sha256 gives one digest per
\* byte string, so the digest is written as the string itself.
RECURSIVE HashedRows(_)
HashedRows(rows) ==
  IF rows = <<>> THEN <<>> ELSE Serialized(Head(rows)) \o HashedRows(Tail(rows))

DataHash(rows, policy, fundamentals_count, actions_count, ratings_count) ==
  HashedRows(rows) \o <<"adjustment_policy=", policy,
                        "fundamentals_count=", ToString(fundamentals_count),
                        "actions_count=", ToString(actions_count),
                        "ratings_count=", ToString(ratings_count)>>

\* COUNT(*) ... WHERE symbol IN (universe) AND at <= end_date T23:59:59
CountUpTo(table, universe, end_date) ==
  Cardinality({i \in 1..Len(table) : /\ table[i].symbol \in SeqRange(universe)
                                      /\ DateOf(table[i].at) <= end_date})

\* COUNT(*) ... WHERE symbol IN (universe) AND CAST(at AS DATE) BETWEEN start AND end
CountBetween(table, universe, start_date, end_date) ==
  Cardinality({i \in 1..Len(table) : /\ table[i].symbol \in SeqRange(universe)
                                      /\ DateOf(table[i].at) >= start_date
                                      /\ DateOf(table[i].at) <= end_date})

\* by_symbol: the number of fetched rows of each symbol of the universe.
BySymbol(universe, rows) ==
  [symbol \in SeqRange(universe) |->
     Cardinality({i \in 1..Len(rows) : rows[i].symbol = symbol})]

\* The keys of by_symbol in insertion order: the universe without repeats.
RECURSIVE UniverseKeys(_)
UniverseKeys(universe) ==
  IF universe = <<>> THEN <<>>
  ELSE LET front == UniverseKeys(SubSeq(universe, 1, Len(universe) - 1))
           last == universe[Len(universe)] IN
       IF last \in SeqRange(front) THEN front ELSE Append(front, last)

\* `[symbol for symbol, count in by_symbol.items() if count == 0]`
MissingSymbols(universe, rows) ==
  LET by_symbol == BySymbol(universe, rows)
      Missing(symbol) == by_symbol[symbol] = 0 IN
  SelectSeq(UniverseKeys(universe), Missing)

\* build_world_state_manifest, with save_world_manifest at its end.
build_world_state_manifest(universe, start_date, end_date, adjustment_policy) ==
  LET policy == StripLower(adjustment_policy)
      Raise(outcome, detail) ==
        /\ md_ret' = [MarketRet("build_world_state_manifest", outcome) EXCEPT !.detail = detail]
        /\ UNCHANGED world_manifests IN
  /\ Cardinality(world_manifests) \in ManifestCounts
  /\ md_call' = [op |-> "build_world_state_manifest",
                 args |-> <<universe, start_date, end_date, adjustment_policy>>]
  /\ IF universe = <<>> THEN Raise("universe_empty", <<>>)
     ELSE IF policy \notin Policies THEN Raise("unsupported_policy", <<>>)
     ELSE \E rows \in OrderBySymbolTimestamp(
                         market_ohlcv, SelectOhlcv(market_ohlcv, universe, start_date, end_date)) :
            LET fundamentals_count == CountUpTo(company_fundamentals, universe, end_date)
                actions_count == CountBetween(corporate_actions, universe, start_date, end_date)
                ratings_count == CountUpTo(analyst_ratings, universe, end_date)
                missing_symbols == MissingSymbols(universe, rows)
                manifest ==
                  [manifest_id |-> Cardinality(world_manifests) + 1,
                   universe |-> universe, start_date |-> start_date, end_date |-> end_date,
                   data_hash |-> DataHash(rows, policy, fundamentals_count, actions_count,
                                          ratings_count),
                   row_count |-> Len(rows),
                   fundamentals_row_count |-> fundamentals_count,
                   corporate_actions_row_count |-> actions_count,
                   ratings_row_count |-> ratings_count,
                   adjustment_policy |-> policy] IN
            IF rows = <<>> THEN Raise("no_market_rows", <<>>)
            ELSE IF missing_symbols # <<>> THEN Raise("missing_symbols", missing_symbols)
            ELSE /\ world_manifests' = world_manifests \cup {manifest}
                 /\ md_ret' = [MarketRet("build_world_state_manifest", "ok") EXCEPT
                                 !.rows = Len(rows), !.manifest_id = manifest.manifest_id]
  /\ UNCHANGED <<market_ohlcv, company_fundamentals, corporate_actions, analyst_ratings,
                 kite_candle_cache, md_audit, md_ops, upstream_calls, notMarket>>

\* market_ohlcv as validate_world_state_pit may find it: what ingest stored,
\* with the published_at of some symbols moved a day past their timestamp
\* (`UPDATE market_ohlcv SET published_at = timestamp + INTERVAL 1 DAY`).
Republished(table, symbols) ==
  [i \in 1..Len(table) |->
     IF table[i].symbol \in symbols
       THEN [table[i] EXCEPT !.published_at = table[i].timestamp + 2]
       ELSE table[i]]

\* A plausible slip: no row counted as a leak.
LeakRowsNone(rows) == 0

\* leak_rows: rows with both times present and published_at > timestamp.
LeakRows(rows) ==
  Cardinality({i \in 1..Len(rows) : /\ rows[i].timestamp # NULL
                                    /\ rows[i].published_at # NULL
                                    /\ rows[i].published_at > rows[i].timestamp})

\* missing_published_at_rows
MissingPublishedAtRows(rows) ==
  Cardinality({i \in 1..Len(rows) : rows[i].timestamp = NULL \/ rows[i].published_at = NULL})

\* The errors list of validate_world_state_pit, in the order it is built.
PitErrors(universe, rows) ==
  (IF rows = <<>> THEN <<"no_rows">> ELSE <<>>) \o
  (IF MissingSymbols(universe, rows) # <<>> THEN <<"missing_symbols">> ELSE <<>>) \o
  (IF MissingPublishedAtRows(rows) > 0 THEN <<"missing_published_at">> ELSE <<>>) \o
  (IF LeakRows(rows) > 0 THEN <<"future_publication_leaks">> ELSE <<>>)

\* The selected rows as a query without ORDER BY returns them; what
\* validate_world_state_pit computes from them are counts, the same in any order.
StoredOrder(table, selected) ==
  LET F[i \in 0..Len(table)] ==
        IF i = 0 THEN <<>>
        ELSE IF i \in selected THEN Append(F[i - 1], table[i]) ELSE F[i - 1]
  IN F[Len(table)]

\* validate_world_state_pit on the table with the given symbols republished.
validate_world_state_pit(republished, universe, start_date, end_date, strict_mode) ==
  /\ md_call' = [op |-> "validate_world_state_pit",
                 args |-> <<republished, universe, start_date, end_date, strict_mode>>]
  /\ IF universe = <<>>
       THEN md_ret' = MarketRet("validate_world_state_pit", "universe_empty")
       ELSE LET table == Republished(market_ohlcv, republished)
                rows == StoredOrder(table, SelectOhlcv(table, universe, start_date, end_date))
                errors == PitErrors(universe, rows) IN
              md_ret' = [MarketRet("validate_world_state_pit",
                                   IF strict_mode /\ errors # <<>> THEN "pit_validation_failed"
                                   ELSE IF errors = <<>> THEN "valid" ELSE "invalid")
                           EXCEPT !.detail = errors, !.rows = LeakRows(rows)]
  /\ UNCHANGED <<market_ohlcv, company_fundamentals, corporate_actions, analyst_ratings,
                 world_manifests, kite_candle_cache, md_audit, md_ops, upstream_calls, notMarket>>

\* --------------------------------------------- live boundary candidates
\* A snapshot row carries its symbol and abs_distance_to_boundary, the
\* distance counted in tenths; build_live_snapshot emits one row per symbol.
Distances == {0, 1, 2}
TopKArgs == {-1, 0, 1, 2, 3}
SnapshotRows == [symbol : SeqRange(SymbolOrder), abs_distance_to_boundary : Distances]

\* The arrangements of a set of rows.
RECURSIVE Arrangements(_)
Arrangements(rows) ==
  IF rows = {} THEN {<<>>}
  ELSE UNION {{<<r>> \o rest : rest \in Arrangements(rows \ {r})} : r \in rows}

\* The snapshots: any rows of distinct symbols, in any order.
Snapshots ==
  UNION {Arrangements(rows) :
           rows \in {rs \in SUBSET SnapshotRows :
                       \A a, b \in rs : a.symbol = b.symbol => a = b}}

\* A plausible slip: the sort key without the symbol.
KeyLessDistanceOnly(a, b) == a.abs_distance_to_boundary < b.abs_distance_to_boundary

\* The tuple comparison of the sort key (float(abs_distance), str(symbol)).
KeyLess(a, b) ==
  \/ a.abs_distance_to_boundary < b.abs_distance_to_boundary
  \/ /\ a.abs_distance_to_boundary = b.abs_distance_to_boundary
     /\ SymbolRank(a.symbol) < SymbolRank(b.symbol)

\* One step of a stable sort: row goes after the rows that are not greater.
RECURSIVE InsertStable(_, _)
InsertStable(ordered, row) ==
  IF ordered = <<>> THEN <<row>>
  ELSE IF KeyLess(row, Head(ordered)) THEN <<row>> \o ordered
  ELSE <<Head(ordered)>> \o InsertStable(Tail(ordered), row)

\* sorted(snapshot, key=...): Python's sort is stable.
RECURSIVE Sorted(_)
Sorted(snapshot) ==
  IF snapshot = <<>> THEN <<>>
  ELSE InsertStable(Sorted(SubSeq(snapshot, 1, Len(snapshot) - 1)), snapshot[Len(snapshot)])

\* ordered[:top_k] for top_k > 0
Slice(ordered, top_k) ==
  SubSeq(ordered, 1, IF top_k < Len(ordered) THEN top_k ELSE Len(ordered))

InitBoundary ==
  /\ bc_call = [snapshot |-> <<>>, top_k |-> 1]
  /\ bc_ret = [outcome |-> "none", candidates |-> <<>>]

boundary_candidates(snapshot, top_k) ==
  /\ bc_call' = [snapshot |-> snapshot, top_k |-> top_k]
  /\ bc_ret' = IF top_k <= 0
                 THEN [outcome |-> "top_k_must_be_positive", candidates |-> <<>>]
                 ELSE [outcome |-> "ok", candidates |-> Slice(Sorted(snapshot), top_k)]
  /\ UNCHANGED notBoundary

\* ------------------------------------------------- choice parameters
\* A search space of one parameter declared as {"choices": [...]}.  A value
\* is a Python object: its type and what it holds.
ChoiceValues ==
  {[type |-> "int", v |-> 1], [type |-> "int", v |-> 2], [type |-> "int", v |-> 3],
   [type |-> "float", v |-> 1], [type |-> "str", v |-> 0]}
ChoiceLens == {1, 2, 3}
ChoiceLists == UNION {[1..n -> ChoiceValues] : n \in ChoiceLens}
GridLayers == {0, 1}

\* Python's == and hash: numbers compare by value (1 == 1.0), a str
\* equals only a str.
PyEq(a, b) == a.v = b.v /\ ((a.type = "str") <=> (b.type = "str"))

\* list(dict.fromkeys(values)): the first of every class of equal values, in
\* the order of declaration.
RECURSIVE DictFromKeys(_)
DictFromKeys(values) ==
  IF Len(values) = 0 THEN <<>>
  ELSE LET rest == DictFromKeys(SubSeq(values, 1, Len(values) - 1))
           last == values[Len(values)] IN
       IF \E i \in 1..Len(rest) : PyEq(rest[i], last) THEN rest ELSE Append(rest, last)

\* float(value) of a choice: a number becomes a float, the str (not a
\* numeral) raises ValueError.
ChoiceFloatRaises(value) == value.type = "str"
ChoiceFloat(value) == [type |-> "float", v |-> value.v]

\* `_coerce_param_for_grid(specs[index], float(value))` of a "choice" spec:
\* the function hands back its argument, which is float(value).
CoerceParamForGrid(value) == ChoiceFloat(value)

InitChoiceGrid ==
  /\ cg_call = [choices |-> <<>>, layer |-> 0]
  /\ cg_ret = [outcome |-> "none", values |-> <<>>]

\* parse_search_space and _generate_param_grid(specs, layer, anchors) for
\* {name: {"choices": choices}}: the values of the rows of the grid.
generate_param_grid(choices, layer) ==
  /\ cg_call' = [choices |-> choices, layer |-> layer]
  /\ LET values == DictFromKeys(choices) IN
     cg_ret' = IF \E i \in 1..Len(values) : ChoiceFloatRaises(values[i])
                 THEN [outcome |-> "ValueError", values |-> <<>>]
                 ELSE [outcome |-> "ok",
                       values |-> [i \in 1..Len(values) |-> CoerceParamForGrid(values[i])]]
  /\ UNCHANGED notChoiceGrid

\* ------------------------------------------ auth_kite_callback requests
\* max_age_seconds=900 of the callback, in ticks of the clock
CallbackMaxAge == 1
RequestTokens == {"", "t"}          \* request_token: missing or given
ExchangeOutcomes == {"ok", "error"} \* create_kite_session returns or raises ValueError
NoCallback == [state |-> "", consumed_at |-> NULL]

InitCallback ==
  /\ cb_pc = [p \in Procs |-> "idle"]
  /\ cb_call = [p \in Procs |-> NoCallback]
  /\ cb_ret = 0
  /\ connector_sessions = {}
  /\ session_writes = [s \in States |-> 0]

\* The request ends with an HTTPException of that status: 400 for a refused
\* login, a missing request_token and every ValueError of the consume, 502 for
\* a failed token exchange; an uncaught sqlite3.OperationalError is a 500.
CallbackRaise(p, status_code) ==
  /\ cb_pc' = [cb_pc EXCEPT ![p] = "idle"]
  /\ cb_call' = [cb_call EXCEPT ![p] = NoCallback]
  /\ cb_ret' = status_code
  /\ UNCHANGED <<dbLock, oauth_states, oauth_tx, connector_sessions, session_writes>>

CallbackSelected(p, state) ==
  /\ cb_pc' = [cb_pc EXCEPT ![p] = "selected"]
  /\ cb_call' = [cb_call EXCEPT ![p] =
       [state |-> state, consumed_at |-> clock]]
  /\ UNCHANGED <<dbLock, oauth_states, oauth_tx, cb_ret, connector_sessions, session_writes>>

\* auth_kite_callback up to the UPDATE of consume_oauth_state or
\* consume_latest_oauth_state(connector="kite", max_age_seconds=900).
auth_kite_callback_select(p, request_token, state, refused) ==
  /\ cb_pc[p] = "idle"
  /\ IF refused THEN CallbackRaise(p, 400)
     ELSE IF request_token = "" THEN CallbackRaise(p, 400)
     ELSE IF state # ""
       THEN LET rows == SelectState(oauth_states, "kite", state) IN
            IF rows = {} THEN CallbackRaise(p, 400)
            ELSE LET row == CHOOSE r \in rows : TRUE IN
                 IF row.consumed_at # NULL THEN CallbackRaise(p, 400)
                 ELSE IF Expired(row.created_at, clock, CallbackMaxAge)
                   THEN CallbackRaise(p, 400)
                 ELSE CallbackSelected(p, state)
       ELSE LET rows == SelectPending(oauth_states, "kite") IN
            IF rows = {} THEN CallbackRaise(p, 400)
            ELSE IF Cardinality(rows) > 1 THEN CallbackRaise(p, 400)
            ELSE LET row == CHOOSE r \in rows : TRUE IN
                 IF Expired(row.created_at, clock, CallbackMaxAge)
                   THEN CallbackRaise(p, 400)
                 ELSE CallbackSelected(p, row.state)
  /\ UNCHANGED <<clock, o_pc, o_call, o_ret, o_ok, notCallback>>

\* The UPDATE of the consume: under the write lock, `rowcount != 1` raises.
auth_kite_callback_update(p) ==
  /\ cb_pc[p] = "selected"
  /\ dbLock = NoProc
  /\ LET targets == UpdateTargets(oauth_states, "kite", cb_call[p].state) IN
     IF Cardinality(targets) # 1
       THEN CallbackRaise(p, 400)
       ELSE /\ oauth_tx' = SetConsumed(oauth_states, targets, cb_call[p].consumed_at)
            /\ dbLock' = p
            /\ cb_pc' = [cb_pc EXCEPT ![p] = "updated"]
            /\ UNCHANGED <<oauth_states, cb_call, cb_ret, connector_sessions, session_writes>>
  /\ UNCHANGED <<clock, o_pc, o_call, o_ret, o_ok, notCallback>>

\* The UPDATE finds the database locked until the busy timeout.
auth_kite_callback_busy(p) ==
  /\ cb_pc[p] = "selected"
  /\ dbLock \notin {NoProc, p}
  /\ CallbackRaise(p, 500)
  /\ UNCHANGED <<clock, o_pc, o_call, o_ret, o_ok, notCallback>>

\* conn.commit() of the consume: the state is consumed.
auth_kite_callback_commit(p) ==
  /\ cb_pc[p] = "updated"
  /\ dbLock = p
  /\ oauth_states' = oauth_tx
  /\ dbLock' = NoProc
  /\ cb_pc' = [cb_pc EXCEPT ![p] = "consumed"]
  /\ UNCHANGED <<oauth_tx, cb_call, cb_ret, connector_sessions, session_writes>>
  /\ UNCHANGED <<clock, o_pc, o_call, o_ret, o_ok, notCallback>>

\* The rest of the request: create_kite_session, then
\* upsert_connector_session (one INSERT ... ON CONFLICT DO UPDATE and its
\* commit) and the response.
auth_kite_callback_session(p, exchange) ==
  /\ cb_pc[p] = "consumed"
  /\ IF exchange # "ok"
       THEN CallbackRaise(p, 502)
       ELSE /\ dbLock = NoProc
            /\ connector_sessions' = connector_sessions \cup {"kite"}
            /\ session_writes' = [session_writes EXCEPT ![cb_call[p].state] = @ + 1]
            /\ cb_pc' = [cb_pc EXCEPT ![p] = "idle"]
            /\ cb_call' = [cb_call EXCEPT ![p] = NoCallback]
            /\ cb_ret' = 200
            /\ UNCHANGED <<dbLock, oauth_states, oauth_tx>>
  /\ UNCHANGED <<clock, o_pc, o_call, o_ret, o_ok, notCallback>>

\* ------------------------------------------------ code strategy backtests
MaxBacktests == 3   \* run_code_strategy_backtest calls of a run

SandboxOutcomes == {"ok", "failed", "timeout"}   \* how run_code_strategy_sandbox ends
Capitals == {0, 1}                               \* initial_capital

InitBacktest ==
  /\ backtest_runs = {}
  /\ bt_files = {}
  /\ bt_audit = <<>>
  /\ bt_calls = 0
  /\ bt_ret = "none"

\* all_dates: the dates of the fetched rows.
AllDates(rows) == {DateOf(rows[i].timestamp) : i \in 1..Len(rows)}

\* run_code_strategy_backtest, one call from its argument checks to its
\* return or raise. The sandbox run is taken by its outcome (its directory
\* is removed before it ends); the closes of market_ohlcv are positive, so
\* compute_backtest_metrics does not raise.
run_code_strategy_backtest(strategy_name, source_code, universe, start_date, end_date, initial_capital, sandbox) ==
  LET found == SelectCodeStrategy(code_strategies, strategy_name)
      ids == IF found = {} THEN {FreshId(code_strategies)} ELSE {r.id : r \in found}
      selected == SelectOhlcv(market_ohlcv, universe, start_date, end_date) IN
  /\ bt_calls < MaxBacktests
  /\ bt_calls' = bt_calls + 1
  /\ \E strategy_id \in ids,
        rows \in OrderBySymbolTimestamp(market_ohlcv, selected),
        manifest_rows \in OrderBySymbolTimestamp(market_ohlcv, selected) :
       LET version_number == MaxVersion(code_strategy_versions, strategy_id) + 1
           version == [id |-> FreshId(code_strategy_versions), strategy_id |-> strategy_id,
                       version_number |-> version_number]
           fundamentals_count == CountUpTo(company_fundamentals, universe, end_date)
           actions_count == CountBetween(corporate_actions, universe, start_date, end_date)
           ratings_count == CountUpTo(analyst_ratings, universe, end_date)
           manifest ==
             [manifest_id |-> Cardinality(world_manifests) + 1,
              universe |-> universe, start_date |-> start_date, end_date |-> end_date,
              data_hash |-> DataHash(manifest_rows, "none", fundamentals_count, actions_count,
                                     ratings_count),
              row_count |-> Len(manifest_rows),
              fundamentals_row_count |-> fundamentals_count,
              corporate_actions_row_count |-> actions_count,
              ratings_row_count |-> ratings_count,
              adjustment_policy |-> "none"]
           run == [id |-> FreshId(backtest_runs), strategy_version_id |-> version.id,
                   world_manifest_id |-> manifest.manifest_id]
           \* raised before save_code_strategy_version has written
           RaiseEarly(outcome) ==
             /\ bt_ret' = outcome
             /\ UNCHANGED <<code_strategies, code_strategy_versions, cs_returned, bt_files,
                            world_manifests, backtest_runs, bt_audit>>
           \* save_code_strategy_version: both INSERTs and the commit
           Saved ==
             /\ code_strategies' =
                  code_strategies \cup {[id |-> strategy_id, name |-> strategy_name]}
             /\ code_strategy_versions' = code_strategy_versions \cup {version}
             /\ cs_returned' = [cs_returned EXCEPT ![strategy_id] = Append(@, version_number)]
           \* raised between save_code_strategy_version and the artifact files
           RaiseSaved(outcome) ==
             /\ bt_ret' = outcome
             /\ Saved
             /\ UNCHANGED <<bt_files, world_manifests, backtest_runs, bt_audit>>
           \* raised by build_world_state_manifest, the files written
           RaiseManifest(outcome) ==
             /\ bt_ret' = outcome
             /\ Saved
             /\ bt_files' = bt_files \cup {bt_calls + 1}
             /\ UNCHANGED <<world_manifests, backtest_runs, bt_audit>> IN
       IF universe = <<>> THEN RaiseEarly("universe_empty")
       ELSE IF initial_capital <= 0 THEN RaiseEarly("capital_not_positive")
       ELSE IF source_code = "" THEN RaiseEarly("source_code_empty")
       ELSE IF strategy_name = "" THEN RaiseEarly("strategy_name_required")
       ELSE IF ~UniqueVersionOk(code_strategy_versions, strategy_id, version_number)
         THEN RaiseEarly("integrity")
       ELSE IF rows = <<>> THEN RaiseSaved("no_ohlcv_rows")
       ELSE IF sandbox # "ok" THEN RaiseSaved(sandbox)
       ELSE IF Cardinality(AllDates(rows)) < 2 THEN RaiseSaved("too_few_dates")
       ELSE IF manifest_rows = <<>> THEN RaiseManifest("no_market_rows")
       ELSE IF MissingSymbols(universe, manifest_rows) # <<>>
         THEN RaiseManifest("missing_symbols")
       ELSE /\ bt_ret' = "ok"
            /\ Saved
            /\ bt_files' = bt_files \cup {bt_calls + 1}
            /\ world_manifests' = world_manifests \cup {manifest}
            /\ backtest_runs' = backtest_runs \cup {run}
            /\ bt_audit' = Append(bt_audit, "code.backtest.run")
  /\ UNCHANGED <<strategies, strategy_versions, v_tx, v_pc, v_call, v_last, sv_returned,
                 market_ohlcv, company_fundamentals, corporate_actions, analyst_ratings,
                 kite_candle_cache, md_audit, md_ops, upstream_calls, md_call, md_ret,
                 notBacktest>>

\* --------------------------------------------------- request trace ids
MaxRequests == 3    \* requests received in a run

TraceHeaders == {<<>>, <<"h", "1">>}    \* x-trace-id of a request; <<>>: none sent
RowKinds == {"structured_log", "audit_event", "app_audit_event"}

\* uuid.uuid4().hex: an id no other request has.
UuidHex(n) == <<"u", ToString(n)>>

InitTrace ==
  /\ tr_pc = [p \in Procs |-> "idle"]
  /\ tr_context = [p \in Procs |-> TraceId]
  /\ tr_trace_id = [p \in Procs |-> <<>>]
  /\ tr_token = [p \in Procs |-> <<>>]
  /\ tr_requests = 0
  /\ tr_rows = [p \in Procs |-> {}]

\* get_trace_id() in task p: _TRACE_ID.get() reads the task's own context
\* (a handler run in the thread pool gets a copy of it).
get_trace_id(context, p) == context[p]

\* set_trace_id: _TRACE_ID.set(trace_id); the token keeps the old value.
set_trace_id(context, p, trace_id) == [context EXCEPT ![p] = trace_id]

\* A plausible slip: the token dropped, the id left in the context.
ResetTraceIdKeeps(context, p, token) == context

\* reset_trace_id: _TRACE_ID.reset(token) puts the old value back.
reset_trace_id(context, p, token) == [context EXCEPT ![p] = token]

\* The row a write made by task p adds: every writer takes the id from
\* get_trace_id() (no payload of the program has a trace_id key of its own).
TraceRow(event, context, p) ==
  [event |-> event, request |-> tr_trace_id[p], trace_id |-> get_trace_id(context, p)]

\* trace_logging_middleware up to call_next: the id from the header or a
\* fresh one, set_trace_id, the request.start log row.
trace_logging_middleware_start(p, header) ==
  /\ tr_pc[p] = "idle"
  /\ tr_requests < MaxRequests
  /\ tr_requests' = tr_requests + 1
  /\ LET trace_id == IF header # <<>> THEN header ELSE UuidHex(tr_requests + 1)
         context == set_trace_id(tr_context, p, trace_id) IN
     /\ tr_token' = [tr_token EXCEPT ![p] = get_trace_id(tr_context, p)]
     /\ tr_context' = context
     /\ tr_trace_id' = [tr_trace_id EXCEPT ![p] = trace_id]
     /\ tr_rows' = [tr_rows EXCEPT ![p] =
          {[event |-> "request.start", request |-> trace_id,
            trace_id |-> get_trace_id(context, p)]}]
  /\ tr_pc' = [tr_pc EXCEPT ![p] = "handling"]
  /\ UNCHANGED notTrace

\* A write of the endpoint behind call_next: _write_structured_log,
\* sqlite_store.append_audit_event or app._append_audit_event.
trace_handler_write(p, kind) ==
  /\ tr_pc[p] = "handling"
  /\ tr_rows' = [tr_rows EXCEPT ![p] = {TraceRow(kind, tr_context, p)}]
  /\ UNCHANGED <<tr_pc, tr_context, tr_trace_id, tr_token, tr_requests, notTrace>>

\* trace_logging_middleware from the return of call_next: the request.error
\* row when it raised, then in `finally` the request.end row and
\* reset_trace_id.
trace_logging_middleware_end(p, raised) ==
  /\ tr_pc[p] = "handling"
  /\ tr_rows' = [tr_rows EXCEPT ![p] =
       {TraceRow(event, tr_context, p) :
          event \in IF raised THEN {"request.error", "request.end"} ELSE {"request.end"}}]
  /\ tr_context' = reset_trace_id(tr_context, p, tr_token[p])
  /\ tr_token' = [tr_token EXCEPT ![p] = <<>>]
  /\ tr_trace_id' = [tr_trace_id EXCEPT ![p] = <<>>]
  /\ tr_pc' = [tr_pc EXCEPT ![p] = "idle"]
  /\ UNCHANGED <<tr_requests, notTrace>>

Init ==
  /\ clock = 0
  /\ dbLock = NoProc
  /\ InitOAuth
  /\ InitVersions
  /\ InitJobs
  /\ InitRateLimit
  /\ InitSandbox
  /\ InitTuning
  /\ InitJobEvents
  /\ InitLive
  /\ InitAudit
  /\ InitTune
  /\ InitMarket
  /\ InitBoundary
  /\ InitChoiceGrid
  /\ InitCallback
  /\ InitBacktest
  /\ InitTrace

NextOAuth ==
  \/ Tick
  \/ \E c \in Connectors, s \in States : create_oauth_state(c, s)
  \/ \E p \in Procs, c \in Connectors \cup {""}, s \in States \cup {""}, a \in MaxAges :
       consume_oauth_state_select(p, c, s, a)
  \/ \E p \in Procs, c \in Connectors, a \in MaxAges :
       consume_latest_oauth_state_select(p, c, a)
  \/ \E p \in Procs : consume_update(p)
  \/ \E p \in Procs : consume_busy(p)
  \/ \E p \in Procs : consume_commit(p)

SpecOAuth == Init /\ [][NextOAuth]_vars

\* The OAuth callback path alone: states are created and consumed only by
\* consume_latest_oauth_state.
NextOAuthLatest ==
  \/ Tick
  \/ \E c \in Connectors, s \in States : create_oauth_state(c, s)
  \/ \E p \in Procs, c \in Connectors, a \in MaxAges :
       consume_latest_oauth_state_select(p, c, a)
  \/ \E p \in Procs : consume_update(p)
  \/ \E p \in Procs : consume_busy(p)
  \/ \E p \in Procs : consume_commit(p)

SpecOAuthLatest == Init /\ [][NextOAuthLatest]_vars

\* Kite logins: auth_kite_connect creates states, callbacks arrive in any
\* number and order, replayed and concurrent.
NextCallback ==
  \/ Tick
  \/ \E c \in Connectors, s \in States : create_oauth_state(c, s)
  \/ \E p \in Procs, t \in RequestTokens, s \in States \cup {""}, refused \in BOOLEAN :
       auth_kite_callback_select(p, t, s, refused)
  \/ \E p \in Procs : auth_kite_callback_update(p)
  \/ \E p \in Procs : auth_kite_callback_busy(p)
  \/ \E p \in Procs : auth_kite_callback_commit(p)
  \/ \E p \in Procs, e \in ExchangeOutcomes : auth_kite_callback_session(p, e)

SpecCallback == Init /\ [][NextCallback]_vars

\* Backtests of code strategies over imported bars, one call at a time.
NextBacktest ==
  \/ \E file \in OhlcvFiles : import_ohlcv_file(file)
  \/ \E n \in StrategyNames \cup {""}, src \in {"", "code"}, universe \in Universes,
        range \in DateRanges, capital \in Capitals, sandbox \in SandboxOutcomes :
       run_code_strategy_backtest(n, src, universe, range[1], range[2], capital, sandbox)

SpecBacktest == Init /\ [][NextBacktest]_vars

\* Requests through trace_logging_middleware, concurrent in different tasks
\* and one after another in the same task.
NextTrace ==
  \/ \E p \in Procs, header \in TraceHeaders : trace_logging_middleware_start(p, header)
  \/ \E p \in Procs, kind \in RowKinds : trace_handler_write(p, kind)
  \/ \E p \in Procs, raised \in BOOLEAN : trace_logging_middleware_end(p, raised)

SpecTrace == Init /\ [][NextTrace]_vars

NextVersions ==
  \/ \E p \in Procs, sid \in StrategyIds \cup {""} : save_strategy_version_begin(p, sid)
  \/ \E p \in Procs : save_strategy_version_insert(p)
  \/ \E p \in Procs, n \in StrategyNames \cup {""}, src \in {"", "code"} :
       save_code_strategy_version_select(p, n, src)
  \/ \E p \in Procs : save_code_strategy_version_insert_new(p)
  \/ \E p \in Procs : save_code_strategy_version_insert_found(p)
  \/ \E p \in Procs : save_busy(p)
  \/ \E p \in Procs : save_code_strategy_version_commit(p)

SpecVersions == Init /\ [][NextVersions]_vars

NextJobs ==
  \/ JobTick
  \/ \E j \in JobIds : create_job(j)
  \/ \E j \in JobIds, st \in StatusArgs, r \in ResultArgs, e \in ErrorArgs, f \in FallbackArgs :
       update_job_status(j, st, r, e, f)
  \/ \E j \in JobIds : run_backtest_job(j)

SpecJobs == Init /\ [][NextJobs]_vars

NextRateLimit ==
  \/ MonoTick
  \/ \E k \in Providers, l \in Limits : setenv(k, l)
  \/ \E t \in Procs, a \in ProviderArgs : enforce_provider_limit_now(t, a)
  \/ \E t \in Procs : enforce_provider_limit_locked(t)

SpecRateLimit == Init /\ [][NextRateLimit]_vars

\* The limiter of one provider under a fixed configuration, called from
\* every thread.
NextRateWindow ==
  \/ MonoTick
  \/ \E t \in Procs : enforce_provider_limit_now(t, "kite")
  \/ \E t \in Procs : enforce_provider_limit_locked(t)

SpecRateWindow == Init /\ [][NextRateWindow]_vars

NextSandbox ==
  \/ \E s \in SourceArgs, i \in InputArgs, t \in LimitArgs, m \in LimitArgs, c \in LimitArgs :
       run_code_strategy_sandbox_begin(s, i, t, m, c)
  \/ run_code_strategy_sandbox_spawn(ServerEnviron)
  \/ \E a \in OpenApis, f \in FileArgs, m \in Modes, caught \in BOOLEAN :
       child_open(a, f, m, caught)
  \/ \E busy \in BOOLEAN : child_tick(busy)
  \/ \E k \in ExitKinds : child_exit(k)
  \/ preexec_limits_cpu
  \/ run_code_strategy_sandbox_timeout
  \/ run_code_strategy_sandbox_finish

SpecSandbox == Init /\ [][NextSandbox]_vars

\* Sandbox runs under every environment of the host process.
NextSandboxEnv ==
  \/ \E s \in SourceArgs, i \in InputArgs, t \in LimitArgs :
       run_code_strategy_sandbox_begin(s, i, t, t, t)
  \/ \E environ \in HostEnvirons : run_code_strategy_sandbox_spawn(environ)
  \/ \E k \in ExitKinds : child_exit(k)
  \/ run_code_strategy_sandbox_finish

SpecSandboxEnv == Init /\ [][NextSandboxEnv]_vars

NextTuningSave ==
  \/ \E p \in Procs, n \in StrategyNameArgs : save_tuning_run_begin(p, n, PayloadArgs)
  \/ \E p \in Procs : save_tuning_run_candidate(p)
  \/ \E p \in Procs : save_tuning_run_layer(p)
  \/ \E p \in Procs : save_tuning_run_commit(p)

SpecTuningSave == Init /\ [][NextTuningSave]_vars

NextTuningUpdate ==
  \/ \E p \in Procs, n \in StrategyNameArgs : save_tuning_run_begin(p, n, SeedPayloads)
  \/ \E p \in Procs : save_tuning_run_candidate(p)
  \/ \E p \in Procs : save_tuning_run_layer(p)
  \/ \E p \in Procs : save_tuning_run_commit(p)
  \/ \E p \in Procs, r \in {""} \cup TuningRunIds, u \in UpdateArgs :
       update_tuning_run_read(p, r, u)
  \/ \E p \in Procs : update_tuning_run_write(p)

SpecTuningUpdate == Init /\ [][NextTuningUpdate]_vars

NextJobEvents ==
  \/ \E p \in Procs, j \in JobIds, e \in EventTypes : append_job_event_insert(p, j, e)
  \/ \E p \in Procs : append_job_event_commit(p)
  \/ \E k \in 0..MaxEvents : stream_job_events(k)
  \/ event_generator_poll
  \/ event_generator_yield

SpecJobEvents == Init /\ [][NextJobEvents]_vars

\* The reader's loop never stops: it polls again after every sleep and
\* yields every event of a result.
SpecJobEventsFair ==
  /\ Init
  /\ [][NextJobEvents]_vars
  /\ WF_vars(event_generator_poll)
  /\ WF_vars(event_generator_yield)

NextLive ==
  \/ LiveTick
  \/ \E p \in Procs, id \in VersionIds : live_activate(p, id)
  \/ \E p \in Procs, id \in VersionIds : live_pause(p, id)
  \/ \E p \in Procs, id \in VersionIds : live_stop(p, id)
  \/ \E p \in Procs, id \in VersionIds, status \in BadStatusArgs :
       upsert_live_state_begin(p, id, StrategyNameOf(id), status, <<>>)
  \/ \E p \in Procs : upsert_live_state_execute(p)
  \/ \E p \in Procs : upsert_live_state_busy(p)
  \/ \E p \in Procs : upsert_live_state_commit(p)

SpecLive == Init /\ [][NextLive]_vars

NextAudit ==
  \/ \E t \in EventTypeArgs, payload \in AuditPayloadArgs : append_audit_event(t, payload)
  \/ \E t \in EventTypeArgs, payload \in AuditPayloadArgs : app_append_audit_event(t, payload)
  \/ \E t \in EventTypeArgs, payload \in AuditPayloadArgs : write_structured_log(t, payload)

SpecAudit == Init /\ [][NextAudit]_vars

NextTune ==
  \/ \E args \in TuneArgs : tune_strategy_begin(args)
  \/ \E grid \in Grids : tune_layer_begin(grid)
  \/ \E failed \in BOOLEAN, value \in MetricValues : tune_run_candidate(failed, value)
  \/ tune_layer_end

SpecTune == Init /\ [][NextTune]_vars

\* tune_strategy called without run_code_fn.
NextTuneDefault ==
  \/ \E args \in TuneArgs : tune_strategy_begin(args)
  \/ \E grid \in Grids : tune_layer_begin(grid)
  \/ \E value \in MetricValues : tune_run_candidate_default(value)
  \/ tune_layer_end

SpecTuneDefault == Init /\ [][NextTuneDefault]_vars

NextIngest ==
  \/ \E file \in OhlcvFiles : import_ohlcv_file(file)
  \/ \E request \in KiteRequests, env \in KiteEnvs, reply \in UpstreamReplies :
       kite_candles_fetch(request, env, reply)
  \/ MonoTick

SpecIngest == Init /\ [][NextIngest]_vars

NextWorld ==
  \/ \E file \in OhlcvFiles : import_ohlcv_file(file)
  \/ \E file \in EventFiles : import_fundamentals_file(file)
  \/ \E file \in EventFiles : import_corporate_actions_file(file)
  \/ \E file \in EventFiles : import_ratings_file(file)
  \/ \E universe \in Universes, range \in DateRanges, policy \in PolicyArgs :
       build_world_state_manifest(universe, range[1], range[2], policy)

SpecWorld == Init /\ [][NextWorld]_vars

NextPit ==
  \/ \E file \in {f \in OhlcvFiles : f.rows # <<>>} : import_ohlcv_file(file)
  \/ \E request \in UncachedRequests, reply \in CandleReplies :
       kite_candles_fetch(request, "ok", reply)
  \/ \E universe \in Universes, range \in DateRanges :
       build_world_state_manifest(universe, range[1], range[2], "none")
  \/ \E republished \in RepublishedArgs, universe \in Universes, range \in DateRanges,
        strict_mode \in BOOLEAN :
       validate_world_state_pit(republished, universe, range[1], range[2], strict_mode)

SpecPit == Init /\ [][NextPit]_vars

NextChoiceGrid ==
  \E choices \in ChoiceLists, layer \in GridLayers : generate_param_grid(choices, layer)

SpecChoiceGrid == Init /\ [][NextChoiceGrid]_vars

NextBoundary ==
  \E snapshot \in Snapshots, top_k \in TopKArgs : boundary_candidates(snapshot, top_k)

SpecBoundary == Init /\ [][NextBoundary]_vars

\* C1: every OAuth state is consumed by at most one call, whatever the
\* interleaving of consume_oauth_state and consume_latest_oauth_state calls
\* (a state with a successful consume is stored consumed, and no second call
\* on it returns normally), and a consumed_at that is set never changes.
C1_ConsumedAtMostOnce ==
  /\ [](\A s \in States :
          /\ o_ok[s] <= 1
          /\ o_ok[s] = 1 =>
               \E r \in oauth_states : r.state = s /\ r.consumed_at # NULL)
  /\ [][\A r \in oauth_states : r.consumed_at # NULL => r \in oauth_states']_vars

\* Two calls raced: one has consumed the state while another, which passed
\* its SELECT checks before, is about to run its UPDATE on the same state.
C1_Witness ==
  \E q \in Procs :
    /\ o_pc[q] = "selected"
    /\ o_ok[o_call[q].state] = 1


NoDuplicates(seq) ==
  \A i, j \in 1..Len(seq) : i # j => seq[i] # seq[j]

UniqueVersionRows(rows) ==
  \A r1, r2 \in rows :
    (r1.strategy_id = r2.strategy_id /\ r1.version_number = r2.version_number) => r1 = r2

\* C2 as claimed: a caller that has read the current maximum version and has
\* not inserted yet is inside its (write) transaction, no two successful
\* saves of a strategy return the same version_number, and every stored
\* (strategy_id, version_number) is unique.
C2_ReadAndInsertInOneTransaction ==
  /\ \A p \in Procs : v_pc[p] \in {"sv_begun", "cs_found", "cs_inserted"} => dbLock = p
  /\ UniqueVersionRows(strategy_versions) /\ UniqueVersionRows(code_strategy_versions)
  /\ \A s \in StrategyIds : NoDuplicates(sv_returned[s])
  /\ \A i \in DOMAIN cs_returned : NoDuplicates(cs_returned[i])

\* C2 as amended: save_strategy_version, and save_code_strategy_version when
\* it creates the strategy, read the maximum and insert inside one
\* transaction; for an existing code strategy the maximum is read before the
\* transaction opens and UNIQUE(strategy_id, version_number) rejects an
\* insert computed from a stale maximum.  Either way no two successful saves
\* return the same version_number and every stored pair is unique.
C2_UniqueVersionNumbers ==
  /\ \A p \in Procs : v_pc[p] \in {"sv_begun", "cs_inserted"} => dbLock = p
  /\ UniqueVersionRows(strategy_versions) /\ UniqueVersionRows(code_strategy_versions)
  /\ \A s \in StrategyIds : NoDuplicates(sv_returned[s])
  /\ \A i \in DOMAIN cs_returned : NoDuplicates(cs_returned[i])

\* Two saves of one code strategy raced: both read the same maximum, one
\* committed its version and the other's INSERT was rejected.
C2_Witness ==
  /\ v_last = "integrity"
  /\ \E i \in DOMAIN cs_returned : Len(cs_returned[i]) >= 2

\* C3: for every strategy, classic or code, the k-th successful save returns
\* version_number = k, whatever saves to other strategies come in between.
C3_KthSaveReturnsK ==
  /\ \A s \in StrategyIds : \A k \in 1..Len(sv_returned[s]) : sv_returned[s][k] = k
  /\ \A i \in DOMAIN cs_returned : \A k \in 1..Len(cs_returned[i]) : cs_returned[i][k] = k

\* Saves to two classic and to two code strategies have been interleaved and
\* one strategy of each kind has reached its second version.
C3_Witness ==
  \/ /\ \E s \in StrategyIds : Len(sv_returned[s]) = 2
     /\ \E s \in StrategyIds : Len(sv_returned[s]) = 1
  \/ /\ \E i \in DOMAIN cs_returned : Len(cs_returned[i]) = 2
     /\ \E i \in DOMAIN cs_returned : Len(cs_returned[i]) = 1

TerminalStatuses == {"completed", "failed"}

\* C4: a job whose status is completed or failed is terminal: no
\* update_job_status call changes its status afterwards.
C4_TerminalStatusIsFinal ==
  [][\A j \in jobs : j.status \in TerminalStatuses =>
       \E k \in jobs' : k.id = j.id /\ k.status = j.status]_vars

\* C5: a call rejected with provider_rate_limited, which is what the call
\* after max_requests admitted ones within the window gets, reports a
\* retry_after_seconds of at most window_seconds, whether the calls come
\* from one thread or from several.
C5_RetryAfterAtMostWindow ==
  rl_last.outcome = "limited" =>
    rl_last.retry_after_seconds <= rl_last.window_seconds

\* C6: a strategy program's write whose resolved path is outside the
\* artifact directory never takes place, and a run whose program tried such
\* a write ends with the "blocked write outside artifact dir" error.
C6_OutsideWriteBlocked ==
  /\ \A f \in child_written : ~Blocked(f, ArtifactDir)
  /\ (sb_pc = "idle" /\ child_pc # "none" /\ child_tried)
       => sb_ret.outcome = "sandbox blocked write outside artifact dir"

\* C7: once a call of run_code_strategy_sandbox that created a sandbox
\* directory has returned or raised, that directory no longer exists.
C7_SandboxDirRemoved ==
  (sb_pc = "idle" /\ sb_ret.sandbox_dir # "")
    => sb_ret.sandbox_dir \notin sandbox_dirs

\* C8: the child never runs beyond timeout_seconds of wall-clock time,
\* whatever cpu_seconds is and however little CPU it uses; a child alive at
\* the deadline is killed and the call fails with the timeout error.
C8_WallClockTimeout ==
  /\ child_pc = "running" => child_wall <= sb_call.timeout_seconds
  /\ child_pc = "killed" =>
       /\ sb_pc = "idle"
       /\ child_wall = sb_call.timeout_seconds
       /\ sb_ret.outcome = "sandbox timeout exceeded"
  /\ sb_ret.outcome = "sandbox timeout exceeded" => child_pc = "killed"

\* a sleeping program killed at the deadline, far from its CPU limit
C8_Witness ==
  /\ child_pc = "killed"
  /\ sb_ret.outcome = "sandbox timeout exceeded"
  /\ child_cpu = 0
  /\ sb_call.cpu_seconds > sb_call.timeout_seconds

\* entries the payload check of save_tuning_run is said to reject
InvalidCandidate(row) ==
  row.object /\ (row.run_id \in {Absent, "", " "} \/ row.score \in {Absent, "abc"})
InvalidLayer(layer) ==
  layer.object /\ (layer.layer \in {Absent, "", " "} \/ layer.reason \in {Absent, "", " "})
InvalidPayload(payload) ==
  \/ /\ payload.evaluated_candidates.kind = "list"
     /\ \E i \in 1..Len(payload.evaluated_candidates.rows) :
          InvalidCandidate(payload.evaluated_candidates.rows[i])
  \/ /\ payload.tuning_plan.kind = "dict"
     /\ payload.tuning_plan.layers.kind = "list"
     /\ \E i \in 1..Len(payload.tuning_plan.layers.rows) :
          InvalidLayer(payload.tuning_plan.layers.rows[i])
RowsOfRun(table, run_id) ==
  Cardinality({i \in 1..Len(table) : table[i].tuning_run_id = run_id})

\* C9: save_tuning_run is all-or-nothing.  No stored run has a payload with
\* an invalid candidate or layer entry, every stored trial and layer decision
\* belongs to a stored run, which has all the rows of its payload; and the
\* step by which a save_tuning_run call raises inside its transaction leaves
\* the three tables as they were.
C9_SaveTuningRunAllOrNothing ==
  /\ [](/\ \A r \in tuning_runs :
             /\ ~InvalidPayload(r.payload)
             /\ RowsOfRun(tuning_trials, r.id) = Len(r.payload.evaluated_candidates.rows)
             /\ RowsOfRun(tuning_layer_decisions, r.id) = Len(r.payload.tuning_plan.layers.rows)
        /\ \A i \in 1..Len(tuning_trials) :
             tuning_trials[i].tuning_run_id \in TuningRunIdsOf(tuning_runs)
        /\ \A i \in 1..Len(tuning_layer_decisions) :
             tuning_layer_decisions[i].tuning_run_id \in TuningRunIdsOf(tuning_runs))
  /\ [][\A p \in Procs :
          (t_pc[p] \in {"candidates", "layers", "commit"} /\ t_pc'[p] = "idle"
             /\ t_ret'.outcome # "ok")
            => UNCHANGED <<tuning_runs, tuning_trials, tuning_layer_decisions>>]_vars

\* a call that had inserted its run and a trial raised on a layer without a
\* reason, and the tables hold nothing
C9_Witness ==
  /\ t_ret.outcome = "tuning payload layer decision missing reason"
  /\ t_ret.rolled_back >= 2
  /\ tuning_runs = {}
  /\ tuning_trials = <<>>
  /\ tuning_layer_decisions = <<>>

RECURSIVE ApplyAll(_, _)
ApplyAll(base, updates) ==
  IF updates = <<>> THEN base
  ELSE ApplyAll(merge_payload(base, Head(updates)), Tail(updates))
Orders(updates) ==
  IF updates = <<>> THEN {<<>>}
  ELSE {[i \in 1..Len(updates) |-> updates[perm[i]]] :
          perm \in Permutations(1..Len(updates))}

\* C10: when no update_tuning_run call is in progress, the stored payload of
\* every run is what applying the updates of all the calls that returned, one
\* after another in some order, makes of the payload that was saved.
C10_NoUpdateLost ==
  (\A p \in Procs : t_pc[p] = "idle")
    => \A r \in tuning_runs :
         r.payload.fields \in
           {ApplyAll(tu_saved[r.id], o) : o \in Orders(tu_applied[r.id])}

\* C11: what list_job_events_after(k) returns are job events with id > k,
\* in strictly increasing order of id.
C11_EventsAfterCursorInOrder ==
  /\ \A i \in 1..Len(r_events) :
       r_events[i] \in job_events /\ r_events[i].id > r_k
  /\ \A i \in 1..Len(r_events), j \in 1..Len(r_events) :
       i < j => r_events[i].id < r_events[j].id

\* a call with a cursor past the first event returned two events
C11_Witness ==
  /\ r_k >= 1
  /\ Len(r_events) >= 2

DeliveredIds == {r_delivered[i] : i \in 1..Len(r_delivered)}

\* C12: the polling reader skips no event.  What it has yielded is in
\* increasing id order and holds every stored event between the cursor it
\* started with and its cursor now; an event that becomes visible has an id
\* above every id visible or yielded before; and every stored event above the
\* start cursor is yielded in the end.
C12_ReaderSkipsNoEvent ==
  /\ [](/\ \A i \in 1..Len(r_delivered), j \in 1..Len(r_delivered) :
             i < j => r_delivered[i] < r_delivered[j]
        /\ \A e \in job_events :
             (r_pc # "stopped" /\ r_start < e.id /\ e.id <= r_current)
               => e.id \in DeliveredIds)
  /\ [][\A e \in job_events' \ job_events :
          /\ \A o \in job_events : e.id > o.id
          /\ \A d \in DeliveredIds : e.id > d]_vars
  /\ \A n \in 1..MaxEvents :
       (r_pc # "stopped" /\ r_start < n /\ n \in EventIds(job_events))
         ~> (n \in DeliveredIds)

\* the reader has yielded events of two polls while an append is under way
C12_Witness ==
  /\ Len(r_delivered) >= 2
  /\ r_k >= 1
  /\ ev_tx # NoEvent

\* C13: a step that applies to a job in a terminal status an update with the
\* status, result and error_text the job already has, that is the same
\* terminal update a second time, leaves its status, result, error_text and
\* fallback_reason as they were.
C13_TerminalUpdateIdempotent ==
  [][\A j \in jobs, k \in jobs' :
       (/\ k.id = j.id
        /\ j.status \in TerminalStatuses
        /\ k.status = j.status /\ k.result = j.result /\ k.error_text = j.error_text)
         => k.fallback_reason = j.fallback_reason]_vars

\* The unconsumed states of one connector, counted from the table itself.
PendingOf(connector) ==
  {r \in oauth_states : r.connector = connector /\ r.consumed_at = NULL}

\* C14: a consume_latest_oauth_state call with a connector and a positive
\* max_age goes on to consume a state only when the connector has exactly one
\* pending state, and that state is the one it takes; with no pending state
\* it raises `no pending`, with two or more `multiple pending`, and in both
\* cases the table is left as it was and the caller is idle again.
C14_LatestNeedsExactlyOnePending ==
  [][\A p \in Procs, connector \in Connectors, max_age \in {m \in MaxAges : m > 0} :
       consume_latest_oauth_state_select(p, connector, max_age) =>
         LET n == Cardinality(PendingOf(connector)) IN
         /\ n = 0 => /\ o_ret' = "no_pending"
                     /\ o_pc'[p] = "idle"
                     /\ oauth_states' = oauth_states /\ oauth_tx' = oauth_tx
         /\ n > 1 => /\ o_ret' = "multiple_pending"
                     /\ o_pc'[p] = "idle"
                     /\ oauth_states' = oauth_states /\ oauth_tx' = oauth_tx
         /\ o_pc'[p] = "selected" =>
              /\ n = 1
              /\ \E r \in PendingOf(connector) : o_call'[p].state = r.state]_vars

\* Two states of one connector are pending, a consume_latest call has just
\* failed on them, and both are still unconsumed.
C14_Witness ==
  /\ o_ret = "multiple_pending"
  /\ \E connector \in Connectors : Cardinality(PendingOf(connector)) = 2
  /\ \A r \in oauth_states : r.consumed_at = NULL

\* C15: a consume call that has passed its age check and written consumed_at
\* found the state younger than its max_age: the age it measured, which is
\* the consumed_at it writes minus the row's created_at, is strictly less than
\* max_age_seconds.
C15_ConsumedOnlyYoungerThanMaxAge ==
  \A p \in Procs :
    o_pc[p] = "updated" =>
      \A r \in oauth_tx :
        (r.connector = o_call[p].connector /\ r.state = o_call[p].state) =>
          r.consumed_at - r.created_at < o_call[p].max_age

\* The live_states rows of one strategy_version_id.
LiveRowsOf(id) == {r \in live_states : r.strategy_version_id = id}

\* C16: whatever the interleaving of live activate, pause and stop calls,
\* every strategy_version_id with a committed upsert has exactly one
\* live_states row, and the row holds the status and the payload of the last
\* committed upsert; an id never upserted has no row.
C16_OneRowHoldingLastUpsert ==
  \A id \in VersionIds :
    IF ls_last[id] = NoUpsert
      THEN LiveRowsOf(id) = {}
      ELSE /\ Cardinality(LiveRowsOf(id)) = 1
           /\ \A r \in LiveRowsOf(id) :
                /\ r.status = ls_last[id].status
                /\ JsonLoads(r.payload_json) = ls_last[id].payload

\* A strategy version was activated, then paused and stopped by calls that
\* overlapped: its one row is "stopped" and its payload carries both stamps or
\* only the last one.
C16_Witness ==
  /\ \A p \in Procs : ls_pc[p] = "idle"
  /\ \E id \in VersionIds :
       /\ ls_last[id].status = "stopped"
       /\ \E i \in 1..Len(ls_last[id].payload) : ls_last[id].payload[i][1] = "stopped_at"
       /\ \A i \in 1..Len(ls_last[id].payload) : ls_last[id].payload[i][1] # "paused_at"
       /\ \E r \in LiveRowsOf(id) : r.updated_at > r.created_at
  /\ \A id \in VersionIds : ls_last[id] # NoUpsert

\* C17: an upsert_live_state call whose status is not active, paused or
\* stopped ends with an error and leaves the table, committed and in
\* transaction, as it was; and every stored row has one of the three statuses.
C17_BadStatusRejected ==
  /\ [](\A r \in live_states \cup ls_tx : r.status \in LiveStatuses)
  /\ [][\A p \in Procs, id \in VersionIds, status \in BadStatusArgs :
          upsert_live_state_begin(p, id, StrategyNameOf(id), status, <<>>) =>
            /\ ls_ret' = "bad_status"
            /\ ls_pc'[p] = "idle"
            /\ live_states' = live_states /\ ls_tx' = ls_tx]_vars

\* A call with a bad status has just been rejected while a row was stored.
C17_Witness ==
  /\ ls_ret = "bad_status"
  /\ live_states # {}
  /\ \A r \in live_states : r.status \in LiveStatuses

\* A masked value: what _mask returns, i.e. nothing, stars only, or four
\* characters, three dots and four characters.
IsMaskedForm(chars) ==
  \/ \A i \in 1..Len(chars) : chars[i] = "*"
  \/ Len(chars) = 11 /\ SubSeq(chars, 5, 7) = <<".", ".", ".">>

\* Every value that a stored JSON document has under a secret key, at any
\* depth of objects and arrays, is a masked string.
RECURSIVE AllSecretsMasked(_)
AllSecretsMasked(doc) ==
  IF doc.json = "object"
    THEN \A i \in 1..Len(doc.items) :
           IF \E secret \in SECRET_KEYS : Contains(LowerStr(doc.items[i][1]), secret)
             THEN /\ doc.items[i][2].json = "string"
                  /\ IsMaskedForm(doc.items[i][2].chars)
             ELSE AllSecretsMasked(doc.items[i][2])
  ELSE IF doc.json = "array"
    THEN \A i \in 1..Len(doc.items) : AllSecretsMasked(doc.items[i])
  ELSE TRUE

\* C18: in every row of audit_events and every line of structured.log, each
\* value under a key whose lowercased name matches a secret key, at any
\* nesting depth, is masked.
C18_SecretsStoredMasked ==
  /\ \A i \in 1..Len(audit_events) : AllSecretsMasked(audit_events[i].payload_json)
  /\ \A i \in 1..Len(structured_log) : AllSecretsMasked(structured_log[i])

\* C19: tune_strategy runs at most max_trials candidates in total and, when
\* max_trials_per_layer is given, at most that many in one layer.
C19_TrialCapsHold ==
  tn_pc \in {"layer", "run", "done"} =>
    /\ tn_runs <= tn_args.max_trials
    /\ (tn_pc = "run" /\ tn_args.max_trials_per_layer # NoPerLayer) =>
         Len(tn_selected) <= tn_args.max_trials_per_layer

\* The metric values of the evaluated candidates.
EvaluatedValues == {tn_evaluated[i].value : i \in 1..Len(tn_evaluated)}
Min(S) == CHOOSE m \in S : \A x \in S : m <= x

\* C20 as stated: the best candidate of a completed run has the largest
\* metric value of all evaluated candidates when maximize is true and the
\* smallest when it is false.
C20_BestIsExtremeOfMetric ==
  tn_ret = "completed" =>
    tn_best.value = IF tn_args.maximize THEN Max(EvaluatedValues) ELSE Min(EvaluatedValues)

\* C20, amended: the best candidate of a completed run is an evaluated
\* candidate with the highest score of all layers.  For a metric named
\* without drawdown, stdev or volatility that is the largest value when
\* maximize is true and the smallest when it is false; for max_drawdown it is
\* the other way round; and when weights are given (here {metric: 1.0})
\* maximize is not looked at.
C20_BestHasHighestScore ==
  tn_ret = "completed" =>
    LET lowerIsBetter == (tn_args.metric = MetricDrawdown)
        asked == IF tn_args.weights = "none" THEN tn_args.maximize ELSE TRUE
        largest == (asked /\ ~lowerIsBetter) \/ (~asked /\ lowerIsBetter) IN
    /\ \E i \in 1..Len(tn_evaluated) : tn_evaluated[i] = tn_best
    /\ \A i \in 1..Len(tn_evaluated) : tn_evaluated[i].score <= tn_best.score
    /\ tn_best.value = IF largest THEN Max(EvaluatedValues) ELSE Min(EvaluatedValues)

\* A run on max_drawdown with maximize true has completed after two layers;
\* the candidate of the first layer has the smaller drawdown and is the best.
C20_Witness ==
  /\ tn_ret = "completed"
  /\ tn_args.metric = MetricDrawdown /\ tn_args.maximize /\ tn_args.weights = "none"
  /\ Len(tn_evaluated) = 2
  /\ tn_evaluated[1].layer = 0 /\ tn_evaluated[2].layer = 1
  /\ tn_evaluated[1].value < tn_evaluated[2].value
  /\ tn_best = tn_evaluated[1]


\* The symbols of a universe with no market_ohlcv row in the date range.
Uncovered(universe, start_date, end_date) ==
  {symbol \in SeqRange(universe) :
     SelectOhlcv(market_ohlcv, <<symbol>>, start_date, end_date) = {}}

\* Every persisted manifest has, for each symbol of its universe, a row in range.
ManifestsCoverUniverse ==
  \A m \in world_manifests : Uncovered(m.universe, m.start_date, m.end_date) = {}

\* C21: every persisted manifest covers its whole universe, and a
\* build_world_state_manifest call (with a supported policy) whose universe
\* has a symbol without any OHLCV row in the range fails with the error that
\* lists exactly the missing symbols and persists no manifest.
C21_MissingSymbolsListed ==
  /\ []ManifestsCoverUniverse
  /\ [][\A universe \in Universes, range \in DateRanges, policy \in PolicyArgs :
          (/\ build_world_state_manifest(universe, range[1], range[2], policy)
           /\ StripLower(policy) \in Policies
           /\ Uncovered(universe, range[1], range[2]) # {})
          => /\ md_ret'.outcome = "missing_symbols"
             /\ SeqRange(md_ret'.detail) = Uncovered(universe, range[1], range[2])
             /\ world_manifests' = world_manifests]_vars


\* The digests build_world_state_manifest can give on the present database
\* for these arguments: one for each order fetchall() may return the rows in.
DataHashes(universe, start_date, end_date, policy) ==
  {DataHash(rows, policy, CountUpTo(company_fundamentals, universe, end_date),
            CountBetween(corporate_actions, universe, start_date, end_date),
            CountUpTo(analyst_ratings, universe, end_date)) :
     rows \in OrderBySymbolTimestamp(
                market_ohlcv, SelectOhlcv(market_ohlcv, universe, start_date, end_date))}

\* C22: the data_hash of a manifest is fixed by the database content, the
\* universe, the date range and the policy: whatever order the selected rows
\* are stored or returned in, the digest is the one the manifest carries.
C22_HashIndependentOfRowOrder ==
  [][\A universe \in Universes, range \in DateRanges, policy \in PolicyArgs :
       (/\ build_world_state_manifest(universe, range[1], range[2], policy)
        /\ md_ret'.outcome = "ok")
       => \A m \in world_manifests' \ world_manifests :
            DataHashes(universe, range[1], range[2], StripLower(policy)) = {m.data_hash}]_vars


\* The rows of a table that a call on (universe, start_date, end_date) selects.
SelectedRows(table, universe, start_date, end_date) ==
  {table[i] : i \in SelectOhlcv(table, universe, start_date, end_date)}

\* C23: every market_ohlcv row selected into a persisted manifest has a
\* published_at that is not later than its timestamp, and
\* validate_world_state_pit in strict mode raises whenever a row it selects
\* has published_at later than timestamp.
C23_PublishedNotAfterTimestamp ==
  /\ \A m \in world_manifests :
       \A row \in SelectedRows(market_ohlcv, m.universe, m.start_date, m.end_date) :
         row.published_at # NULL /\ row.published_at <= row.timestamp
  /\ (md_call.op = "validate_world_state_pit" /\ md_call.args[5])
       => LET table == Republished(market_ohlcv, md_call.args[1]) IN
          (\E row \in SelectedRows(table, md_call.args[2], md_call.args[3], md_call.args[4]) :
             row.published_at > row.timestamp)
          => md_ret.outcome = "pit_validation_failed"

\* A manifest is persisted and a strict validation has raised on a leak.
C23_Witness ==
  /\ world_manifests # {}
  /\ md_ret.op = "validate_world_state_pit"
  /\ md_ret.outcome = "pit_validation_failed"
  /\ md_ret.detail = <<"future_publication_leaks">>
  /\ md_ret.rows > 0


\* C24: after any sequence of OHLCV file imports and persisted Kite candle
\* fetches, market_ohlcv holds at most one row for each (symbol, timestamp).
C24_OneRowPerSymbolTimestamp ==
  \A i, j \in 1..Len(market_ohlcv) :
    (market_ohlcv[i].symbol = market_ohlcv[j].symbol
     /\ market_ohlcv[i].timestamp = market_ohlcv[j].timestamp) => i = j


\* C25: boundary_candidates(snapshot, top_k) rejects top_k <= 0; otherwise
\* it returns min(top_k, number of rows) rows of the snapshot, in strictly
\* ascending (abs_distance_to_boundary, symbol) order, none of the rows left
\* out comes before a returned one in that order, and every arrangement of
\* the same rows gives the same result.
C25_TopKNearestBySymbol ==
  LET snapshot == bc_call.snapshot
      top_k == bc_call.top_k
      candidates == bc_ret.candidates
      n == Len(snapshot)
      Before(a, b) ==
        \/ a.abs_distance_to_boundary < b.abs_distance_to_boundary
        \/ /\ a.abs_distance_to_boundary = b.abs_distance_to_boundary
           /\ SymbolRank(a.symbol) < SymbolRank(b.symbol) IN
  bc_ret.outcome # "none" =>
    /\ top_k <= 0 <=> bc_ret.outcome = "top_k_must_be_positive"
    /\ top_k > 0 =>
         /\ bc_ret.outcome = "ok"
         /\ Len(candidates) = (IF top_k < n THEN top_k ELSE n)
         /\ SeqRange(candidates) \subseteq SeqRange(snapshot)
         /\ \A i, j \in 1..Len(candidates) : i < j => Before(candidates[i], candidates[j])
         /\ \A r \in SeqRange(snapshot) \ SeqRange(candidates) :
              \A c \in SeqRange(candidates) : Before(c, r)
         /\ \A other \in Arrangements(SeqRange(snapshot)) :
              Slice(Sorted(other), top_k) = candidates

\* Two rows at the same distance were given with the later symbol first,
\* and one row was cut off.
C25_Witness ==
  /\ bc_ret.outcome = "ok"
  /\ Len(bc_call.snapshot) = 3
  /\ bc_call.top_k = 2
  /\ bc_call.snapshot[1].abs_distance_to_boundary = bc_call.snapshot[2].abs_distance_to_boundary
  /\ SymbolRank(bc_call.snapshot[1].symbol) > SymbolRank(bc_call.snapshot[2].symbol)
  /\ bc_ret.candidates = <<bc_call.snapshot[2], bc_call.snapshot[1]>>


\* C26: a kite_candles_fetch call with use_cache set, force_refresh not set
\* and a cache entry under the request's cache key returns cache_hit = TRUE
\* with the row_count and dataset_hash of that entry, makes no upstream call,
\* leaves the rate limiter's admitted timestamps alone and inserts no OHLCV row.
C26_CacheHitSkipsUpstream ==
  [][(/\ md_ops' # md_ops
      /\ md_call'.op = "kite_candles_fetch"
      /\ md_call'.args[1].use_cache
      /\ ~md_call'.args[1].force_refresh)
     => \A row \in kite_candle_cache :
          row.cache_key = KiteCandleCacheKey(md_call'.args[1])
          => /\ md_ret'.outcome = "ok"
             /\ md_ret'.cache_hit
             /\ md_ret'.rows = row.row_count
             /\ md_ret'.dataset_hash = row.dataset_hash
             /\ md_ret'.persisted_rows = 0
             /\ upstream_calls' = upstream_calls
             /\ rl_state' = rl_state
             /\ market_ohlcv' = market_ohlcv]_vars

\* The second of two equal requests was answered from the cache: the
\* provider was called once and the candles were inserted once.
C26_Witness ==
  /\ md_call.op = "kite_candles_fetch"
  /\ md_ret.cache_hit
  /\ md_ret.rows = 2
  /\ upstream_calls = 1
  /\ Len(market_ohlcv) = 2
  /\ Len(rl_state["kite"]) = 1

\* ---------------------------------------------------------------- C27
\* Variables of the host from which the child's interpreter computes its
\* home (PYTHONHOME) and its module search path (PYTHONPATH, and
\* PYTHONUSERBASE, the base of the user site-packages directory).
PathNames == {"PYTHONHOME", "PYTHONPATH", "PYTHONUSERBASE"}

\* C27: the environment of the sandbox child holds no runtime-path or
\* import-path variable inherited from the host process.
C27_NoPathVariableInherited ==
  \A n \in PathNames : <<n, "host">> \notin child_environ

\* ---------------------------------------------------------------- C28
\* queued -> running -> (completed | failed)
JobTransitions ==
  {<<"queued", "running">>, <<"running", "completed">>, <<"running", "failed">>}

\* C28: a job is created queued, every change of its status is one step of
\* queued -> running -> (completed | failed), and its status is always one
\* of queued, running, completed, failed.
C28_StatusFollowsLifecycle ==
  /\ [](\A j \in jobs : j.status \in JobStatuses)
  /\ [][\A b \in jobs' :
          IF \E a \in jobs : a.id = b.id
          THEN \A a \in jobs :
                 a.id = b.id /\ a.status # b.status
                   => <<a.status, b.status>> \in JobTransitions
          ELSE b.status = "queued"]_vars

\* ---------------------------------------------------------------- C29
\* C29: for each provider, the calls admitted within an interval of
\* window_seconds are at most max_requests, however the clock reads and the
\* lock acquisitions of the calling threads interleave.
C29_WindowHoldsMaxRequests ==
  \A k \in Providers : Len(rl_admitted[k]) <= rl_env[k].max_requests

\* ---------------------------------------------------------------- C30
\* C30: from its start to its return, tune_strategy has called the run
\* function at most max_trials times, failed runs counted.
C30_RunsWithinMaxTrials ==
  tn_pc # "idle" /\ tn_args.max_trials > 0 => tn_runs <= tn_args.max_trials

\* ---------------------------------------------------------------- C31
\* C31: within one tune_strategy run no parameter combination is handed to
\* the run function twice, in one layer or across layers.
C31_NoCombinationRunTwice ==
  \A i, j \in 1..Len(tn_executed) : i # j => tn_executed[i] # tn_executed[j]

\* A later layer whose grid holds a combination that was run before, and
\* that has selected another one to run.
C31_Witness ==
  /\ tn_pc = "run"
  /\ tn_index = 1
  /\ tn_layer >= 1
  /\ \E i \in 1..Len(tn_grid) : tn_grid[i] \in SeqRange(tn_executed)
  /\ Len(tn_selected) >= 1
  /\ C31_NoCombinationRunTwice

\* ---------------------------------------------------------------- C32
\* The combinations of the layer's grid that no earlier layer selected.
UnseenInGrid == SeqRange(tn_grid) \ (tn_seen \ SeqRange(tn_selected))

\* C32: a layer shuffles the whole product, skips the combinations already
\* evaluated and only then applies max_trials_per_layer and the remaining
\* budget: it selects as many candidates as the smallest of the number of
\* not-yet-evaluated combinations, the per-layer cap and the budget.
C32_CapsAppliedAfterSkipping ==
  tn_pc = "run" /\ tn_index = 1 =>
    Len(tn_selected) =
      Min({Cardinality(UnseenInGrid), tn_remaining} \cup
          (IF tn_args.max_trials_per_layer = NoPerLayer
             THEN {} ELSE {tn_args.max_trials_per_layer}))

\* ---------------------------------------------------------------- C34
\* The order of sorted(): numbers by value.
Ascending(values) ==
  \A i, j \in 1..Len(values) : i < j => values[i].v <= values[j].v

\* C34: the candidate values of a choice parameter are, in every layer,
\* exactly the declared choices: each one as it was declared (type kept),
\* none twice, in sorted order.
C34_ChoicesVerbatimSorted ==
  cg_call.choices # <<>> =>
    /\ cg_ret.outcome = "ok"
    /\ SeqRange(cg_ret.values) \subseteq SeqRange(cg_call.choices)
    /\ \A c \in SeqRange(cg_call.choices) :
         \E i \in 1..Len(cg_ret.values) : PyEq(cg_ret.values[i], c)
    /\ \A i, j \in 1..Len(cg_ret.values) :
         i # j => ~PyEq(cg_ret.values[i], cg_ret.values[j])
    /\ Ascending(cg_ret.values)

\* ---------------------------------------------------------------- C33
\* C33: tune_strategy with its default backtest function, for a strategy
\* that backtests successfully and a search space that yields candidates,
\* evaluates at least one candidate and returns a best_candidate.
C33_DefaultRunEvaluatesCandidate ==
  tn_pc = "done" /\ tn_executed # <<>> =>
    /\ tn_ret = "completed"
    /\ Len(tn_evaluated) >= 1
    /\ tn_best # NoCandidate

\* ---------------------------------------------------------------- C35
RECURSIVE SumWrites(_)
SumWrites(states) ==
  IF states = {} THEN 0
  ELSE LET s == CHOOSE x \in states : TRUE IN session_writes[s] + SumWrites(states \ {s})

C36_OneCodeStrategyRowPerName ==
  \A name \in StrategyNames :
    Cardinality(SelectCodeStrategy(code_strategies, name)) <= 1

\* C37: a run_code_strategy_backtest call that fails leaves the store as it
\* found it: the code strategy tables, world_manifests and backtest_runs.
C37_FailedBacktestWritesNothing ==
  [][(bt_calls' # bt_calls /\ bt_ret' # "ok") =>
       UNCHANGED <<code_strategies, code_strategy_versions, world_manifests,
                   backtest_runs>>]_vars

\* C38: every row written while a request is handled carries the trace id
\* of that request, and a task that is handling no request has the id it
\* had before (the default): the id is released however the request ended.
C38_RowsCarryOwnTraceId ==
  /\ \A p \in Procs : \A row \in tr_rows[p] : row.trace_id = row.request
  /\ \A p \in Procs : tr_pc[p] = "idle" => get_trace_id(tr_context, p) = TraceId

\* Two requests with different ids are being handled at the same time, one
\* of them in the task of an earlier request; both have just written an
\* audit event.
C38_Witness ==
  /\ tr_requests = 3
  /\ \A p \in Procs : tr_pc[p] = "handling"
  /\ \A p, q \in Procs : p # q => tr_trace_id[p] # tr_trace_id[q]
  /\ \A p \in Procs : \E row \in tr_rows[p] :
       row.request = tr_trace_id[p] /\ row.event \in {"audit_event", "app_audit_event"}

\* C39: after a call rejected with retry_after_seconds = r in its message,
\* the next call of the provider to reach the limiter, made r or more
\* later, is admitted.
C39_RetryAfterSuffices ==
  [][\A t \in Procs :
       (/\ rl_last.outcome = "limited"
        /\ rl_pc[t] = "timed" /\ rl_pc'[t] = "idle"
        /\ rl_call[t].provider = rl_last.provider
        /\ rl_call[t].now >= rl_last.now + rl_last.message)
       => rl_last'.outcome = "admitted"]_vars

=========================================================================
